---- MODULE Spec2Model ----
(***************************************************************************)
(* Terrain synthesis (generateTerrain) and contour extraction              *)
(* (generateContourLines) of the topographic-lines visualizer, modelled    *)
(* from the current terrain module (src/unnamed/part_005, second half)     *)
(* and src/js/config.ts.                                                   *)
(*                                                                         *)
(* Numbers.  JavaScript doubles are modelled as exact rationals            *)
(* [n |-> numerator, d |-> denominator > 0] in lowest terms.  The values   *)
(* of a Float32Array are modelled as the integers: storing a double into   *)
(* the vertex buffer rounds it to the nearest integer, ties to even, as    *)
(* Float32Array rounds a double to the nearest float32.  Vertex            *)
(* elevations are therefore integers, configuration values are rationals.  *)
(* Array positions are 1-based here and 0-based in the source.             *)
(***************************************************************************)
EXTENDS Integers, Sequences, FiniteSets, TLC

VARIABLES
    config,        \* the `config` object of config.ts (fields the terrain module reads)
    vertices,      \* y components of geometry.attributes.position (Float32Array)
    index,         \* geometry.index.array, flat: three entries per triangle
    pc,            \* position inside generateTerrain / generateContourLines
    vi,            \* generateTerrain: loop variable i of the vertex loop
    noise,         \* generateTerrain: locals noise1, noise2 of the last iteration
    terrainMesh,   \* module-level terrainMesh: Null or [visible, transparent, opacity]
    style,         \* generateContourLines: parameter `style`
    baseContourColor, \* generateContourLines: parameter `baseContourColor`
    lineOpacity,   \* generateContourLines: parameter `lineOpacity`
    children,      \* contourLinesGroup.children
    sharedMaterial,\* contourLinesGroup.userData.sharedMaterial
    groupVisible,  \* contourLinesGroup.visible
    lines,         \* generateContourLines: local `lines`, keyed by height
    ti,            \* generateContourLines: loop variable i of the triangle loop
    h,             \* generateContourLines: loop variable h of the level loop
    edges,         \* generateContourLines: locals edge12, edge23, edge31 of the last iteration
    intersections, \* generateContourLines: local `intersections` of the last iteration
    branch,        \* which path the last level-loop iteration took
    visited,       \* the values h took in the level loop of the current triangle
    result,        \* what generateContourLines returned
    baseConfig,    \* the `baseConfig` object of config.ts
    settings,      \* the fields of `config` that only main.ts, gui.ts and scene.ts use
    scene,         \* the THREE.Scene: its children, background and fog
    controls,      \* the OrbitControls flags
    terrainBorder, \* module-level terrainBorder: Null or [geometry, visible]
    geometries,    \* every BufferGeometry created so far, by identity
    meshGeometry,  \* identity of terrainMesh.geometry (0: no mesh)
    lineGeometries,\* identities of the geometries of contourLinesGroup.children
    noiseSeed,     \* generateTerrain: local noiseSeed of the last call
    callbacks,     \* how many callbacks of the GUI have run
    randomRanges,  \* the `randomRanges` object of config.ts (the fields that are read)
    generatedWith, \* generateTerrain: the fields of config the last call read (Null: no call yet)
    op             \* the callback of gui.ts whose updateVisualization call is due, or "ready"

vars == <<config, vertices, index, pc, vi, noise, terrainMesh, style, baseContourColor,
          lineOpacity, children, sharedMaterial, groupVisible, lines, ti, h,
          edges, intersections, branch, visited, result, baseConfig, settings,
          scene, controls, terrainBorder, geometries, meshGeometry, lineGeometries,
          noiseSeed, callbacks, randomRanges, generatedWith, op>>

\* the state of main.ts, gui.ts and scene.ts around the terrain module
mainVars == <<baseConfig, settings, scene, controls, terrainBorder, geometries,
              meshGeometry, lineGeometries, noiseSeed, callbacks, randomRanges,
              generatedWith, op>>

contourVars == <<style, baseContourColor, lineOpacity, children, sharedMaterial,
                 groupVisible, lines, ti, h, edges, intersections, branch, visited,
                 result>>

\* null / undefined, comparable with the records it stands in for
Null == [null |-> TRUE]

(***************************************************************************)
(* Bounds of the model.                                                    *)
(***************************************************************************)
\* vertex elevations of an input mesh range over MinY..MaxY
MaxY == 3
\* contourInterval ranges over 1..MaxInterval
MaxInterval == 2
\* noise samples are k / NoiseDen for k in -NoiseDen..NoiseDen
NoiseDen == 2
\* minTerrainHeightFactor is k / FactorDen for 0 <= k/FactorDen <= 1/2
FactorDen == 2
\* plateauVolume is k / PlateauDen for k in 0..PlateauDen
PlateauDen == 2
\* number of vertices of a synthesized grid
NumVertices == 2
MaxDescent == 3

\* the elevations an input mesh may hold (float32 values)
Heights == -1..MaxY

(***************************************************************************)
(* Exact rational arithmetic for the double computations.                  *)
(***************************************************************************)
Abs(a) == IF a < 0 THEN -a ELSE a

RECURSIVE GCD(_, _)
GCD(a, b) == IF b = 0 THEN a ELSE GCD(b, a % b)

\* the rational n/d in lowest terms with a positive denominator; as in
\* JavaScript, x/0 is an infinity (d = 0, n = 1 or -1) and 0/0 is NaN (n = d = 0)
Rat(n, d) ==
    LET g == GCD(Abs(n), Abs(d))
        s == IF d < 0 THEN -1 ELSE 1
    IN  IF g = 0 THEN [n |-> 0, d |-> 0]
        ELSE [n |-> s * (n \div g), d |-> s * (d \div g)]

FromInt(i) == [n |-> i, d |-> 1]
RAdd(a, b) == Rat(a.n * b.d + b.n * a.d, a.d * b.d)
RSub(a, b) == Rat(a.n * b.d - b.n * a.d, a.d * b.d)
RMul(a, b) == Rat(a.n * b.n, a.d * b.d)
RDiv(a, b) == Rat(a.n * b.d, a.d * b.n)
RLt(a, b) == a.n * b.d < b.n * a.d
RLe(a, b) == a.n * b.d <= b.n * a.d
RAbs(a) == [n |-> Abs(a.n), d |-> a.d]
RMax(a, b) == IF RLt(a, b) THEN b ELSE a

\* Math.ceil of a rational
Ceil(a) == -((-a.n) \div a.d)
\* Math.floor of a rational
Floor(a) == a.n \div a.d

(***************************************************************************)
(* config.ts: the configuration object and the render styles.              *)
(***************************************************************************)
FILLED_MOUNTAIN == "Filled Mountain"
LINES_ONLY == "Lines Only"
FADING_LINES == "Fading Lines"
Styles == {FILLED_MOUNTAIN, LINES_ONLY, FADING_LINES}

\* the values the model lets minTerrainHeightFactor take: k/FactorDen in [0, 1/2]
FactorValues == {Rat(k, FactorDen) : k \in {j \in 0..FactorDen : 2 * j <= FactorDen}}
\* the values the model lets plateauVolume take: k/PlateauDen in [0, 1]
PlateauValues == {Rat(k, PlateauDen) : k \in 0..PlateauDen}
\* the values the model lets a noise sample take: k/NoiseDen in [-1, 1]
NoiseValues == {Rat(k, NoiseDen) : k \in (0 - NoiseDen)..NoiseDen}
\* the values the model lets terrainMaxHeight take
MaxHeightValues == 1..MaxY
IntervalValues == 1..MaxInterval

\* colors are [r, g, b] with double components
Color(r, g, b) == [r |-> r, g |-> g, b |-> b]
White == Color(FromInt(1), FromInt(1), FromInt(1))
\* config.backgroundColor, as the THREE.Color it is parsed to
BackgroundColor == Color(FromInt(2), Rat(3, 2), FromInt(2))
\* the base contour colors the model passes to generateContourLines
ContourColors == {Color(FromInt(3), Rat(1, 4), FromInt(0)),
                  Color(Rat(5, 2), FromInt(2), FromInt(1))}

Configs ==
    [terrainMaxHeight : MaxHeightValues,
     minTerrainHeightFactor : FactorValues,
     plateauVolume : PlateauValues,
     contourInterval : IntervalValues,
     backgroundColor : {BackgroundColor},
     style : Styles]

(***************************************************************************)
(* generateTerrain: the elevation of one vertex.                           *)
(***************************************************************************)
\* minTerrainHeightFactor * terrainMaxHeight, the floor elevation, as a double
FloorHeight(cfg) == RMul(cfg.minTerrainHeightFactor, FromInt(cfg.terrainMaxHeight))

\* PlateauCutoffHeight without the factor 0.5
PlateauCutoffHeightFull(cfg) ==
    RMul(FromInt(cfg.terrainMaxHeight), RSub(FromInt(1), cfg.plateauVolume))

\* currentMaxHeight * (1 - currentPlateauVolume * 0.5)
PlateauCutoffHeight(cfg) ==
    RMul(FromInt(cfg.terrainMaxHeight),
         RSub(FromInt(1), RMul(cfg.plateauVolume, Rat(1, 2))))

\* (noise1 * 0.97) + (noise2 * 0.03)
CombinedNoise(noise1, noise2) ==
    RAdd(RMul(noise1, Rat(97, 100)), RMul(noise2, Rat(3, 100)))

\* expNoise * currentMaxHeight * slopeFactor
RawHeight(cfg, noise1, noise2) ==
    LET expNoise == RDiv(RAdd(CombinedNoise(noise1, noise2), FromInt(1)), FromInt(2))
        slopeFactor == RAdd(FromInt(1), RMul(RAbs(RSub(noise1, noise2)), Rat(1, 10)))
    IN  RMul(RMul(expNoise, FromInt(cfg.terrainMaxHeight)), slopeFactor)

\* PlateauHeight with the part above the cutoff scaled by 1 + plateauVolume
PlateauHeightExpanding(cfg, noise1, noise2) ==
    LET finalHeight == RawHeight(cfg, noise1, noise2)
        cutoff == PlateauCutoffHeight(cfg)
    IN  IF cfg.plateauVolume.n > 0 /\ RLt(cutoff, finalHeight)
        THEN RAdd(cutoff, RMul(RSub(finalHeight, cutoff),
                               RAdd(FromInt(1), cfg.plateauVolume)))
        ELSE finalHeight

\* the plateau compression of elevations above the cutoff
PlateauHeight(cfg, noise1, noise2) ==
    LET finalHeight == RawHeight(cfg, noise1, noise2)
        cutoff == PlateauCutoffHeight(cfg)
    IN  IF cfg.plateauVolume.n > 0 /\ RLt(cutoff, finalHeight)
        THEN RAdd(cutoff, RMul(RSub(finalHeight, cutoff),
                               RSub(FromInt(1), cfg.plateauVolume)))
        ELSE finalHeight

\* ClampedHeight without the Math.max against the floor
ClampedHeightNoFloor(cfg, noise1, noise2) == PlateauHeight(cfg, noise1, noise2)

\* Math.max(currentMinHeightFactor * currentMaxHeight, finalHeight), as a double
ClampedHeight(cfg, noise1, noise2) ==
    RMax(FloorHeight(cfg), PlateauHeight(cfg, noise1, noise2))

\* the store of a double into the Float32Array: the nearest float32, ties to even
Fround(a) ==
    LET lo == Floor(a)
        twice == 2 * (a.n - lo * a.d)   \* 2 * fractional part * a.d
    IN  IF twice < a.d THEN lo
        ELSE IF twice > a.d THEN lo + 1
        ELSE IF lo % 2 = 0 THEN lo ELSE lo + 1

\* vertices[j + 1] = Math.max(...)
VertexHeight(cfg, noise1, noise2) == Fround(ClampedHeight(cfg, noise1, noise2))

(***************************************************************************)
(* generateTerrain as a state machine: the vertex loop, then the mesh.     *)
(***************************************************************************)
\* new THREE.PlaneGeometry(...); rotateX: a flat grid, every y = 0
FlatGrid == [k \in 1..NumVertices |-> 0]

\* const geometry = ...; const vertices = ...; the locals of generateTerrain
GenerateTerrainBegin ==
    /\ pc = "idle"
    /\ vertices' = FlatGrid
    /\ vi' = 0
    /\ pc' = "vertexLoop"
    /\ UNCHANGED <<config, index, noise, terrainMesh>>
    /\ UNCHANGED contourVars
    /\ UNCHANGED mainVars

\* the noise of coordinates read past the end of the array (undefined)
NaN == [nan |-> TRUE]

\* one iteration of for (let i = 0, j = 0; i < vertices.length; i++, j += 3).
\* vertices.length counts components, three per vertex, so the loop runs on
\* after the last vertex: there j is past the end of the typed array, x and z
\* are undefined and the store is dropped.  The noise function is the
\* external ImprovedNoise: any two samples in [-1, 1].
GenerateTerrainVertex ==
    /\ pc = "vertexLoop"
    /\ vi < 3 * NumVertices
    /\ IF vi < NumVertices
       THEN \E noise1 \in NoiseValues, noise2 \in NoiseValues :
              /\ noise' = [noise1 |-> noise1, noise2 |-> noise2]
              /\ vertices' = [vertices EXCEPT
                                ![vi + 1] = VertexHeight(config, noise1, noise2)]
       ELSE /\ noise' = NaN
            /\ vertices' = vertices
    /\ vi' = vi + 1
    /\ UNCHANGED <<config, index, pc, terrainMesh>>
    /\ UNCHANGED contourVars
    /\ UNCHANGED mainVars

\* the material and the module-level mesh, once the loop has ended
GenerateTerrainFinish ==
    /\ pc = "vertexLoop"
    /\ vi = 3 * NumVertices
    /\ terrainMesh' =
          [geometry |-> vertices,
           transparent |-> (config.style = FILLED_MOUNTAIN),
           opacity |-> IF config.style = FILLED_MOUNTAIN THEN Rat(6, 10) ELSE FromInt(1),
           visible |-> (config.style = FILLED_MOUNTAIN)]
    /\ pc' = "terrainDone"
    /\ UNCHANGED <<config, vertices, index, vi, noise>>
    /\ UNCHANGED contourVars
    /\ UNCHANGED mainVars

\* a mesh left by an earlier call of generateTerrain
EarlierMeshes ==
    {[geometry |-> FlatGrid, transparent |-> (st = FILLED_MOUNTAIN),
      opacity |-> IF st = FILLED_MOUNTAIN THEN Rat(6, 10) ELSE FromInt(1),
      visible |-> (st = FILLED_MOUNTAIN)] : st \in Styles}

\* contourLinesGroup = new THREE.Group(): no children, no material, visible
ContourIdle ==
    /\ style = FADING_LINES
    /\ baseContourColor = White
    /\ lineOpacity = FromInt(1)
    /\ children = <<>>
    /\ sharedMaterial = Null
    /\ groupVisible = TRUE
    /\ lines = <<>>
    /\ ti = 0
    /\ h = 0
    /\ edges = <<>>
    /\ intersections = <<>>
    /\ branch = "none"
    /\ visited = <<>>
    /\ result = "none"

\* the fields of baseConfig, as config.ts initialises them (200, 110, 0.3 and
\* 5 on the scale of the model)
InitialBaseConfig ==
    [terrainMaxHeight |-> MaxY,
     noiseScale |-> 1,
     minTerrainHeightFactor |-> Rat(1, 2 * FactorDen),
     contourInterval |-> 1]

\* config.contourColor, as the THREE.Color it is parsed to
InitialContourColor == Color(FromInt(3), Rat(1, 4), FromInt(0))

\* the other fields of config, as config.ts initialises them
InitialSettings ==
    [noiseScale |-> InitialBaseConfig.noiseScale,
     contourColor |-> InitialContourColor,
     lineOpacity |-> FromInt(1),
     fillOpacity |-> Rat(2, 5),
     fogIntensity |-> Rat(1, 2),
     enableZoom |-> TRUE,
     enableRotate |-> TRUE,
     showTerrainBorder |-> FALSE]

\* randomRanges, as config.ts initialises it
InitialRandomRanges ==
    [minHeightRange |-> Rat(1, 20), enableIntervalRandomization |-> TRUE]

\* main.ts, scene.ts and the terrain module once evaluated, before init()
\* runs: no scene, no mesh, no border, no geometry
LoadedMain ==
    /\ baseConfig = InitialBaseConfig
    /\ settings = InitialSettings
    /\ scene = [mesh |-> FALSE, group |-> FALSE, borders |-> {},
                background |-> Null, fog |-> Null]
    /\ controls = [enableRotate |-> TRUE, enableZoom |-> TRUE]
    /\ terrainBorder = Null
    /\ geometries = <<>>
    /\ meshGeometry = 0
    /\ lineGeometries = <<>>
    /\ noiseSeed = FromInt(0)
    /\ callbacks = 0
    /\ randomRanges = InitialRandomRanges
    /\ generatedWith = Null
    /\ op = "load"

TerrainInit ==
    /\ LoadedMain
    /\ config \in {c \in Configs : c.contourInterval = 1}
    /\ vertices = FlatGrid
    /\ index = <<>>
    /\ pc = "idle"
    /\ vi = 0
    /\ noise = NaN
    /\ terrainMesh \in {Null} \cup EarlierMeshes
    /\ ContourIdle

TerrainNext ==
    \/ GenerateTerrainBegin
    \/ GenerateTerrainVertex
    \/ GenerateTerrainFinish

TerrainSpec == TerrainInit /\ [][TerrainNext]_vars

(***************************************************************************)
(* generateContourLines: the geometry it reads and the crossing test.      *)
(***************************************************************************)
\* x and z of vertex k: the vertices lie on a grid two vertices wide
VertexX(k) == (k - 1) % 2
VertexZ(k) == (k - 1) \div 2

\* new THREE.Vector3().fromBufferAttribute(geometry.attributes.position, k)
Vertex(verts, k) ==
    [x |-> FromInt(VertexX(k)), y |-> FromInt(verts[k]), z |-> FromInt(VertexZ(k))]

\* Vector3.lerp: this + (v - this) * alpha, per component
Lerp(p1, p2, t) ==
    [x |-> RAdd(p1.x, RMul(RSub(p2.x, p1.x), t)),
     y |-> RAdd(p1.y, RMul(RSub(p2.y, p1.y), t)),
     z |-> RAdd(p1.z, RMul(RSub(p2.z, p1.z), t))]

\* NoCrossing with <= for < in the test of the two endpoints below the height
NoCrossingLe(p1y, p2y, height) ==
    \/ RLe(p1y, height) /\ RLe(p2y, height)
    \/ RLe(height, p1y) /\ RLe(height, p2y)

\* NoCrossing with `<=` for the second endpoint only in the first test
NoCrossingOneSided(p1y, p2y, height) ==
    \/ RLt(p1y, height) /\ RLe(p2y, height)
    \/ RLe(height, p1y) /\ RLe(height, p2y)

\* NoCrossing with both comparisons strict: an endpoint on the plane counts
\* as a crossing from either side
NoCrossingStrict(p1y, p2y, height) ==
    \/ RLt(p1y, height) /\ RLt(p2y, height)
    \/ RLt(height, p1y) /\ RLt(height, p2y)

\* the early return of getIntersection: no crossing on this edge
NoCrossing(p1y, p2y, height) ==
    \/ RLt(p1y, height) /\ RLt(p2y, height)
    \/ RLe(height, p1y) /\ RLe(height, p2y)

\* GetIntersection with the denominator of t reversed
GetIntersectionReversed(p1, p2, height) ==
    IF NoCrossing(p1.y, p2.y, height)
    THEN Null
    ELSE LET t == RDiv(RSub(height, p1.y), RSub(p1.y, p2.y))
         IN  Lerp(p1, p2, t)

\* getIntersection(p1, p2, height): Null, or the interpolated point
GetIntersection(p1, p2, height) ==
    IF NoCrossing(p1.y, p2.y, height)
    THEN Null
    ELSE LET t == RDiv(RSub(height, p1.y), RSub(p2.y, p1.y))
         IN  Lerp(p1, p2, t)

\* geometry.index of a geometry without an index buffer
NoIndex == <<Null>>

\* an index of the triangle at position i is past the end of the vertex
\* array: fromBufferAttribute reads undefined there, and Math.min and
\* Math.max of the three y are NaN
TriHasUndefined(verts, idx, i) ==
    \E k \in 1..3 : idx[i + k] \notin DOMAIN verts

\* Math.ceil(minY / currentInterval) * currentInterval is NaN: minY is NaN,
\* or currentInterval is 0 (minY / 0 is an infinity or NaN, and times 0 NaN)
FirstLevelIsNaN(verts, idx, i, interval) ==
    TriHasUndefined(verts, idx, i) \/ interval = 0

\* the three vertices of the triangle that starts at position i of the index
TriangleAt(verts, idx, i) ==
    <<Vertex(verts, idx[i + 1]), Vertex(verts, idx[i + 2]), Vertex(verts, idx[i + 3])>>

Min2(a, b) == IF a < b THEN a ELSE b
Max2(a, b) == IF a < b THEN b ELSE a
\* Math.min(v1.y, v2.y, v3.y) and Math.max(v1.y, v2.y, v3.y)
TriMinY(verts, idx, i) ==
    Min2(verts[idx[i + 1]], Min2(verts[idx[i + 2]], verts[idx[i + 3]]))
TriMaxY(verts, idx, i) ==
    Max2(verts[idx[i + 1]], Max2(verts[idx[i + 2]], verts[idx[i + 3]]))

\* FirstLevel with Math.floor for Math.ceil
FirstLevelFloor(minY, interval) == Floor(Rat(minY, interval)) * interval

\* Math.ceil(minY / currentInterval) * currentInterval
FirstLevel(minY, interval) == Ceil(Rat(minY, interval)) * interval

\* LevelCondition without the test against the triangle's maximum
LevelConditionNoMaxY(hh, maxY, cfg) == hh < cfg.terrainMaxHeight

\* LevelCondition with h < maxY for h <= maxY
LevelConditionStrict(hh, maxY, cfg) == hh < maxY /\ hh < cfg.terrainMaxHeight

\* the condition of the level loop: h <= maxY && h < currentMaxHeight
LevelCondition(hh, maxY, cfg) == hh <= maxY /\ hh < cfg.terrainMaxHeight

\* SkipLevel without the test against the floor
SkipLevelNoFloor(hh, cfg) == hh <= 0 /\ cfg.contourInterval > 0

\* the two `continue` tests of the level loop
SkipLevel(hh, cfg) ==
    \/ /\ RLt(FromInt(hh), FloorHeight(cfg))
       /\ cfg.minTerrainHeightFactor.n > 0
    \/ /\ hh <= 0
       /\ cfg.contourInterval > 0

\* edge12, edge23, edge31
EdgeTests(tri, hh) ==
    <<GetIntersection(tri[1], tri[2], FromInt(hh)),
      GetIntersection(tri[2], tri[3], FromInt(hh)),
      GetIntersection(tri[3], tri[1], FromInt(hh))>>

\* if (edge12) intersections.push(edge12); ... in the order 12, 23, 31
Intersections(es) == SelectSeq(es, LAMBDA e : e # Null)

\* the six numbers pushed for the segment from a to b
SegmentPoints(a, b) == <<a.x, a.y, a.z, b.x, b.y, b.z>>
\* SegmentColors with the color pushed for one endpoint only
SegmentColorsOnce(c) == <<c.r, c.g, c.b>>
\* the six numbers pushed for the colors of a segment
SegmentColors(c) == <<c.r, c.g, c.b, c.r, c.g, c.b>>

EmptyLevel == [points |-> <<>>, colors |-> <<>>]

\* PushSegments with the first segment pushed from intersections[0] to itself
PushSegmentsDegenerate(ls, hh, ints, color) ==
    IF Len(ints) >= 2
    THEN LET old == IF hh \in DOMAIN ls THEN ls[hh] ELSE EmptyLevel
             one == [points |-> old.points \o SegmentPoints(ints[1], ints[1]),
                     colors |-> old.colors \o SegmentColors(color)]
         IN  [k \in DOMAIN ls \cup {hh} |-> IF k = hh THEN one ELSE ls[k]]
    ELSE ls

\* PushSegments with zero-length segments filtered out
PushSegmentsFiltered(ls, hh, ints, color) ==
    IF Len(ints) >= 2 /\ ints[1] # ints[2]
    THEN LET old == IF hh \in DOMAIN ls THEN ls[hh] ELSE EmptyLevel
             one == [points |-> old.points \o SegmentPoints(ints[1], ints[2]),
                     colors |-> old.colors \o SegmentColors(color)]
             two == IF Len(ints) = 3
                    THEN [points |-> one.points \o SegmentPoints(ints[2], ints[3]),
                          colors |-> one.colors \o SegmentColors(color)]
                    ELSE one
         IN  [k \in DOMAIN ls \cup {hh} |-> IF k = hh THEN two ELSE ls[k]]
    ELSE ls

\* if (intersections.length >= 2) { ... }: the pushes onto lines[h]
PushSegments(ls, hh, ints, color) ==
    IF Len(ints) >= 2
    THEN LET old == IF hh \in DOMAIN ls THEN ls[hh] ELSE EmptyLevel
             one == [points |-> old.points \o SegmentPoints(ints[1], ints[2]),
                     colors |-> old.colors \o SegmentColors(color)]
             two == IF Len(ints) = 3
                    THEN [points |-> one.points \o SegmentPoints(ints[2], ints[3]),
                          colors |-> one.colors \o SegmentColors(color)]
                    ELSE one
         IN  [k \in DOMAIN ls \cup {hh} |-> IF k = hh THEN two ELSE ls[k]]
    ELSE ls

(***************************************************************************)
(* generateContourLines: the shared material and the line objects.         *)
(***************************************************************************)
\* new THREE.Float32BufferAttribute(array, 3): every number stored as float32
Float32Array(arr) == [k \in 1..Len(arr) |-> Fround(arr[k])]

\* the LineBasicMaterial of the Filled Mountain and Lines Only styles, after
\* the property assignments that follow its creation or reuse
LineBasicMaterial(st, opacity) ==
    [type |-> "LineBasicMaterial",
     color |-> White,
     vertexColors |-> TRUE,
     transparent |-> RLt(opacity, FromInt(1)),
     opacity |-> opacity,
     depthTest |-> (st # FILLED_MOUNTAIN),
     depthWrite |-> (st # FILLED_MOUNTAIN)]

\* the ShaderMaterial of the Fading Lines style, created or with its
\* uniforms updated
ShaderMaterial(color, opacity, cfg) ==
    [type |-> "ShaderMaterial",
     uniforms |-> [baseColor |-> color,
                   fogColor |-> cfg.backgroundColor,
                   minFadeHeight |-> FloorHeight(cfg),
                   maxFadeHeight |-> FromInt(cfg.terrainMaxHeight),
                   u_opacity |-> opacity],
     transparent |-> TRUE,
     depthTest |-> TRUE,
     depthWrite |-> TRUE]

\* contourLinesGroup.userData.sharedMaterial after the material handling:
\* a material of the other kind is disposed and replaced, one of the right
\* kind is kept and updated
ContourMaterial(shared, st, color, opacity, cfg) ==
    IF st = LINES_ONLY \/ st = FILLED_MOUNTAIN
    THEN LET kept == IF shared # Null /\ shared.type # "LineBasicMaterial"
                     THEN Null ELSE shared
         IN  IF kept = Null
             THEN LineBasicMaterial(st, opacity)
             ELSE [kept EXCEPT !.color = White,
                               !.vertexColors = TRUE,
                               !.transparent = RLt(opacity, FromInt(1)),
                               !.opacity = opacity,
                               !.depthTest = (st # FILLED_MOUNTAIN),
                               !.depthWrite = (st # FILLED_MOUNTAIN)]
    ELSE LET kept == IF shared # Null /\ shared.type # "ShaderMaterial"
                     THEN Null ELSE shared
         IN  IF kept = Null
             THEN ShaderMaterial(color, opacity, cfg)
             ELSE [kept EXCEPT !.uniforms = ShaderMaterial(color, opacity, cfg).uniforms]

\* LineObject without the color attribute
LineObjectPositionOnly(level, data, material, st) ==
    [level |-> level,
     attributes |-> [position |-> Float32Array(data.points)],
     material |-> material.type,
     renderOrder |-> IF st = FILLED_MOUNTAIN THEN 1 ELSE 0]

\* one LineSegments object: its geometry's attributes and its material.
\* `level` is the key of `lines` it was built from.
LineObject(level, data, material, st) ==
    [level |-> level,
     attributes |->
        IF material.type = "LineBasicMaterial" /\ material.vertexColors
        THEN [position |-> Float32Array(data.points),
              color |-> Float32Array(data.colors)]
        ELSE [position |-> Float32Array(data.points)],
     material |-> material.type,
     renderOrder |-> IF st = FILLED_MOUNTAIN THEN 1 ELSE 0]

\* for (const height in lines): the keys are positive integers, which a
\* JavaScript object enumerates in ascending order
RECURSIVE LineObjects(_, _, _, _)
LineObjects(ls, keys, material, st) ==
    IF keys = {}
    THEN <<>>
    ELSE LET k == CHOOSE m \in keys : \A n \in keys : m <= n
             rest == LineObjects(ls, keys \ {k}, material, st)
         IN  IF Len(ls[k].points) > 0
             THEN <<LineObject(k, ls[k], material, st)>> \o rest
             ELSE rest

\* ClearedChildren with the loop that empties the group left out
ClearedChildrenKept(ch) == ch

\* while (contourLinesGroup.children.length > 0) { dispose; remove }
ClearedChildren(ch) == <<>>

(***************************************************************************)
(* generateContourLines as a state machine: the call, the triangle loop,   *)
(* the level loop of each triangle, and the final loop over `lines`.       *)
(***************************************************************************)
\* the call on a geometry without an index buffer: the group is emptied, the
\* shared material made and the group shown before the index is looked at;
\* then console.error and `return new THREE.Group()`
ContourNoIndex ==
    /\ pc = "idle"
    /\ index = NoIndex
    /\ \E st \in Styles, color \in ContourColors :
          /\ style' = st
          /\ baseContourColor' = color
          /\ sharedMaterial' =
                ContourMaterial(sharedMaterial, st, color, lineOpacity, config)
    /\ children' = ClearedChildren(children)
    /\ groupVisible' = TRUE
    /\ result' = "newGroup"
    /\ pc' = "done"
    /\ UNCHANGED mainVars
    /\ UNCHANGED <<config, vertices, index, vi, noise, terrainMesh,
                   lineOpacity, lines, ti, h, edges, intersections, branch, visited>>

\* the call, and the function up to the loops: the group is emptied, the
\* shared material made, the group shown, the locals set.  The geometry has
\* an index buffer and the style is one of the three, as for every caller in
\* main.ts.  The function reads its parameter `style`, never config.style.
ContourBegin ==
    /\ pc = "idle"
    /\ index # NoIndex
    /\ \E st \in Styles, color \in ContourColors :
          /\ style' = st
          /\ baseContourColor' = color
          /\ sharedMaterial' =
                ContourMaterial(sharedMaterial, st, color, lineOpacity, config)
    /\ children' = ClearedChildren(children)
    /\ groupVisible' = TRUE
    /\ lines' = <<>>
    /\ ti' = 0
    /\ pc' = "triangles"
    /\ UNCHANGED mainVars
    /\ UNCHANGED <<config, vertices, index, vi, noise, terrainMesh,
                   lineOpacity, h, edges, intersections, branch, visited, result>>

\* for (let i = 0; i < index.length; i += 3): the head of one iteration, up
\* to the initialisation of the level loop.  When the first h is NaN the
\* condition h <= maxY is false at once: the level loop has no iteration and
\* the triangle loop moves on.
TriangleBegin ==
    /\ pc = "triangles"
    /\ ti < Len(index)
    /\ visited' = <<>>
    /\ branch' = "none"
    /\ IF FirstLevelIsNaN(vertices, index, ti, config.contourInterval)
       THEN /\ ti' = ti + 3
            /\ UNCHANGED <<h, pc>>
       ELSE /\ h' = FirstLevel(TriMinY(vertices, index, ti), config.contourInterval)
            /\ pc' = "levels"
            /\ UNCHANGED ti
    /\ UNCHANGED mainVars
    /\ UNCHANGED <<config, vertices, index, vi, noise, terrainMesh, style,
                   baseContourColor, lineOpacity, children, sharedMaterial,
                   groupVisible, lines, edges, intersections, result>>

\* one iteration of the level loop: a `continue`, or the three edge tests
\* and the pushes; then h += currentInterval.  The model follows a loop that
\* descends (a negative interval) down to -MaxDescent.
LevelIteration ==
    /\ pc = "levels"
    /\ h >= -MaxDescent
    /\ LevelCondition(h, TriMaxY(vertices, index, ti), config)
    /\ IF SkipLevel(h, config)
       THEN /\ branch' = "continue"
            /\ UNCHANGED <<lines, edges, intersections>>
       ELSE LET es == EdgeTests(TriangleAt(vertices, index, ti), h)
                ints == Intersections(es)
            IN  /\ branch' = "body"
                /\ edges' = es
                /\ intersections' = ints
                /\ lines' = PushSegments(lines, h, ints, baseContourColor)
    /\ visited' = Append(visited, h)
    /\ h' = h + config.contourInterval
    /\ UNCHANGED mainVars
    /\ UNCHANGED <<config, vertices, index, pc, vi, noise, terrainMesh, style,
                   baseContourColor, lineOpacity, children, sharedMaterial,
                   groupVisible, ti, result>>

\* the level loop ends; i += 3
LevelExit ==
    /\ pc = "levels"
    /\ ~LevelCondition(h, TriMaxY(vertices, index, ti), config)
    /\ ti' = ti + 3
    /\ pc' = "triangles"
    /\ UNCHANGED mainVars
    /\ UNCHANGED <<config, vertices, index, vi, noise, terrainMesh, style,
                   baseContourColor, lineOpacity, children, sharedMaterial,
                   groupVisible, lines, h, edges, intersections, branch, visited,
                   result>>

\* the triangle loop ends: one LineSegments per entry of `lines`, added to
\* the group, and the group returned
BuildLines ==
    /\ pc = "triangles"
    /\ ti >= Len(index)
    /\ children' = children \o LineObjects(lines, DOMAIN lines, sharedMaterial, style)
    /\ result' = "contourLinesGroup"
    /\ pc' = "done"
    /\ UNCHANGED mainVars
    /\ UNCHANGED <<config, vertices, index, vi, noise, terrainMesh, style,
                   baseContourColor, lineOpacity, sharedMaterial, groupVisible,
                   lines, ti, h, edges, intersections, branch, visited>>

\* the meshes the model contours: a quad of two triangles, indexed as
\* PlaneGeometry indexes one grid cell, with any elevations
MeshVertices == [1..4 -> Heights]
MeshIndex == <<1, 3, 2, 3, 4, 2>>

\* what an earlier call left in the group: nothing (a new group), or the
\* material and one line of a Lines Only or of a Fading Lines call
StaleLevel ==
    [points |-> SegmentPoints(Vertex(<<1, 1>>, 1), Vertex(<<1, 1>>, 2)),
     colors |-> SegmentColors(White)]
\* the configuration of that earlier call
EarlierConfig(st) ==
    [terrainMaxHeight |-> MaxY,
     minTerrainHeightFactor |-> FromInt(0),
     plateauVolume |-> FromInt(0),
     contourInterval |-> 1,
     backgroundColor |-> BackgroundColor,
     style |-> st]
EarlierMaterial(st) == ContourMaterial(Null, st, White, FromInt(1), EarlierConfig(st))
EarlierGroups ==
    {[children |-> <<>>, sharedMaterial |-> Null]} \cup
    {[children |-> <<LineObject(1, StaleLevel, EarlierMaterial(st), st)>>,
      sharedMaterial |-> EarlierMaterial(st)] : st \in {LINES_ONLY, FADING_LINES}}

ContourInit ==
    /\ LoadedMain
    /\ style = FADING_LINES
    /\ config \in {c \in Configs : /\ c.terrainMaxHeight >= MaxY - 1
                                  /\ c.plateauVolume = FromInt(0)
                                  /\ c.style = FADING_LINES}
    /\ vertices \in MeshVertices
    /\ index = MeshIndex
    /\ pc = "idle"
    /\ vi = 0
    /\ noise = NaN
    /\ terrainMesh = Null
    /\ baseContourColor = White
    /\ lineOpacity = FromInt(1)
    /\ \E g \in EarlierGroups :
          /\ children = g.children
          /\ sharedMaterial = g.sharedMaterial
    /\ groupVisible = TRUE
    /\ lines = <<>>
    /\ ti = 0
    /\ h = 0
    /\ edges = <<>>
    /\ intersections = <<>>
    /\ branch = "none"
    /\ visited = <<>>
    /\ result = "none"

ContourNext ==
    \/ ContourBegin
    \/ TriangleBegin
    \/ LevelIteration
    \/ LevelExit
    \/ BuildLines

ContourSpec == ContourInit /\ [][ContourNext]_vars

\* the level loop can run an iteration: the guard of LevelIteration
LevelIterationEnabled ==
    /\ pc = "levels"
    /\ h >= -MaxDescent
    /\ LevelCondition(h, TriMaxY(vertices, index, ti), config)

\* a call that has begun is synchronous code: a step that can be taken is
\* taken.  For LevelIteration weak fairness is written out, with its guard
\* for ENABLED.
ContourRunFairness ==
    /\ WF_vars(TriangleBegin)
    /\ WF_vars(LevelExit)
    /\ WF_vars(BuildLines)
    /\ ([]<>(~LevelIterationEnabled) \/ []<><<LevelIteration>>_vars)

\* the calls whose termination is checked: a new group, the fourth vertex at 0
ContourLiveInit ==
    /\ ContourInit
    /\ children = <<>>
    /\ sharedMaterial = Null
    /\ vertices[4] = 0

ContourLiveSpec == ContourLiveInit /\ [][ContourNext]_vars /\ ContourRunFairness

(***************************************************************************)
(* generateContourLines on the inputs its callers never pass: a geometry   *)
(* without an index buffer, with an empty one, or with an index past the   *)
(* end of the vertex array, and a contourInterval that is zero or          *)
(* negative.                                                               *)
(***************************************************************************)
\* MeshIndex with the vertex of its fifth entry past the end of the array
OutOfRangeIndex == <<1, 3, 2, 3, 5, 2>>
BoundaryIndexes == {NoIndex, <<>>, MeshIndex, OutOfRangeIndex}
BoundaryVertices == [1..4 -> 0..2]
BoundaryConfigs ==
    [terrainMaxHeight : {MaxY - 1, MaxY},
     minTerrainHeightFactor : {FromInt(0), Rat(1, 2)},
     plateauVolume : {FromInt(0)},
     contourInterval : -1..1,
     backgroundColor : {BackgroundColor},
     style : {FADING_LINES}]

BoundaryInit ==
    /\ LoadedMain
    /\ style = FADING_LINES
    /\ config \in BoundaryConfigs
    /\ vertices \in BoundaryVertices
    /\ index \in BoundaryIndexes
    /\ pc = "idle"
    /\ vi = 0
    /\ noise = NaN
    /\ terrainMesh = Null
    /\ baseContourColor = White
    /\ lineOpacity = FromInt(1)
    /\ \E g \in EarlierGroups :
          /\ children = g.children
          /\ sharedMaterial = g.sharedMaterial
    /\ groupVisible = TRUE
    /\ lines = <<>>
    /\ ti = 0
    /\ h = 0
    /\ edges = <<>>
    /\ intersections = <<>>
    /\ branch = "none"
    /\ visited = <<>>
    /\ result = "none"

BoundaryNext ==
    \/ ContourNoIndex
    \/ ContourBegin
    \/ TriangleBegin
    \/ LevelIteration
    \/ LevelExit
    \/ BuildLines

BoundarySpec == BoundaryInit /\ [][BoundaryNext]_vars

(***************************************************************************)
(* Claims about generateContourLines, checked under ContourSpec.           *)
(***************************************************************************)
\* the height of a line object, read from its geometry: the y of its first point
ObjectHeight(line) == line.attributes.position[2]

\* the contour levels emitted so far: the keys of `lines`, and once the
\* function has returned, the heights of the line objects of its result
EmittedLevels ==
    DOMAIN lines \cup
    (IF pc = "done" THEN {ObjectHeight(children[k]) : k \in 1..Len(children)} ELSE {})

\* the triangle whose level loop ran last
LoopTriangle == IF pc = "levels" THEN ti ELSE ti - 3
\* a level loop is running or has run
InOrAfterLevelLoop == pc = "levels" \/ (pc \in {"triangles", "done"} /\ ti > 0)

C3_LevelEnumeration ==
    /\ \A k \in EmittedLevels :
          /\ k % config.contourInterval = 0
          /\ k < config.terrainMaxHeight
    /\ InOrAfterLevelLoop =>
          LET minY == TriMinY(vertices, index, LoopTriangle)
              maxY == TriMaxY(vertices, index, LoopTriangle)
              step == config.contourInterval
              first == CHOOSE m \in (minY)..(minY + step) :
                          /\ m % step = 0
                          /\ m - step < minY
          IN  /\ \A j \in 1..Len(visited) :
                    /\ visited[j] = first + (j - 1) * step
                    /\ visited[j] <= maxY
                    /\ visited[j] < config.terrainMaxHeight
              /\ h = first + Len(visited) * step
              /\ pc # "levels" => (h > maxY \/ h >= config.terrainMaxHeight)

\* a level loop has ended above the triangle's maximum after two candidates,
\* the first of them above the triangle's minimum, and a level is emitted
C3_Witness ==
    /\ pc = "triangles"
    /\ ti > 0
    /\ Len(visited) >= 2
    /\ visited[1] > TriMinY(vertices, index, ti - 3)
    /\ h > TriMaxY(vertices, index, ti - 3)
    /\ DOMAIN lines # {}

\* the height and the triangle of the last iteration of the level loop
LastHeight == h - config.contourInterval
LastTriangle == TriangleAt(vertices, index, ti)

\* C4: getIntersection reports a crossing if and only if exactly one of the
\* two endpoints has y < h and the other has y >= h; both below, or both at
\* or above (an endpoint equal to h included), is no crossing.  Stated of the
\* three edge tests of the last iteration of the level loop.
C4_CrossingIffStraddle ==
    (pc = "levels" /\ branch = "body") =>
        \A j \in 1..3 :
            LET p1y == LastTriangle[j].y
                p2y == LastTriangle[(j % 3) + 1].y
                hh  == FromInt(LastHeight)
            IN  (edges[j] # Null) <=>
                    \/ RLt(p1y, hh) /\ RLe(hh, p2y)
                    \/ RLt(p2y, hh) /\ RLe(hh, p1y)

\* the edge tests of one triangle met an edge that runs from a vertex
\* exactly at the height down to a lower vertex (a crossing), an edge from a
\* vertex exactly at the height to a higher one, or two at the height (none)
C4_Witness ==
    /\ pc = "levels"
    /\ branch = "body"
    /\ \E j \in 1..3 :
          /\ edges[j] # Null
          /\ LastTriangle[j].y = FromInt(LastHeight)
          /\ RLt(LastTriangle[(j % 3) + 1].y, FromInt(LastHeight))
    /\ \E j \in 1..3 :
          /\ edges[j] = Null
          /\ LastTriangle[j].y = FromInt(LastHeight)
          /\ RLe(FromInt(LastHeight), LastTriangle[(j % 3) + 1].y)

\* the points stored under height k, none if there is no such level
PointsAt(ls, k) == IF k \in DOMAIN ls THEN ls[k].points ELSE <<>>

\* C5: in an iteration of the level loop that is not skipped, two crossings
\* append exactly one segment joining them to the level of that height,
\* three crossings append exactly the two segments crossing[0]-crossing[1]
\* and crossing[1]-crossing[2], fewer than two append nothing; no other
\* level changes.
C5_SegmentsPerCrossings ==
    [][(pc = "levels" /\ visited' # visited /\ branch' = "body") =>
          LET n == Len(intersections')
              c == intersections'
              old == PointsAt(lines, h)
              new == PointsAt(lines', h)
          IN  /\ n = 2 => new = old \o <<c[1].x, c[1].y, c[1].z, c[2].x, c[2].y, c[2].z>>
              /\ n = 3 => new = old \o <<c[1].x, c[1].y, c[1].z, c[2].x, c[2].y, c[2].z>>
                                    \o <<c[2].x, c[2].y, c[2].z, c[3].x, c[3].y, c[3].z>>
              /\ n < 2 => lines' = lines
              /\ \A k \in (DOMAIN lines \cup DOMAIN lines') \ {h} :
                    PointsAt(lines', k) = PointsAt(lines, k)]_vars

\* an iteration with two crossings has just appended its segment to a level
\* that already held one, and the two crossings are different points
C5_Witness ==
    /\ pc = "levels"
    /\ branch = "body"
    /\ Len(intersections) = 2
    /\ intersections[1] # intersections[2]
    /\ LastHeight \in DOMAIN lines
    /\ Len(lines[LastHeight].points) = 12

\* C6: every endpoint of every segment stored under level h has y equal to
\* h, in the accumulated points and in the position attribute of the line
\* object built from them.
C6_EndpointsOnPlane ==
    /\ \A k \in DOMAIN lines :
          \A j \in 1..Len(lines[k].points) :
              j % 3 = 2 => lines[k].points[j] = FromInt(k)
    /\ pc = "done" =>
          \A i \in 1..Len(children) :
              \A j \in 1..Len(children[i].attributes.position) :
                  j % 3 = 2 => children[i].attributes.position[j] = children[i].level

\* a stored endpoint that lies strictly inside its edge: its x or z is not
\* that of a vertex
C6_Witness ==
    \E k \in DOMAIN lines :
        \E j \in 1..Len(lines[k].points) :
            /\ j % 3 # 2
            /\ lines[k].points[j].d > 1

RECURSIVE Repeated(_, _)
Repeated(c, n) == IF n = 0 THEN <<>> ELSE <<c.r, c.g, c.b>> \o Repeated(c, n - 1)

\* C8 as stated: for every style, every geometry of the result has a color
\* attribute that holds the base contour color (as float32, the precision of
\* a buffer attribute) for every segment endpoint.
C8_ColorAttributeEveryStyle ==
    pc = "done" =>
        \A i \in 1..Len(children) :
            /\ "color" \in DOMAIN children[i].attributes
            /\ children[i].attributes.color =
                  Float32Array(Repeated(baseContourColor,
                         Len(children[i].attributes.position) \div 3))

\* C8 as amended: the accumulated colors of every level hold the base
\* contour color for every endpoint; for Filled Mountain and Lines Only every
\* geometry of the result has a color attribute holding those colors as
\* float32; for Fading Lines no geometry has a color attribute and the base
\* color is the baseColor uniform of the shared material.
C8_ColorAttributeByStyle ==
    /\ pc \in {"triangles", "levels", "done"} =>
          \A k \in DOMAIN lines :
              lines[k].colors = Repeated(baseContourColor, Len(lines[k].points) \div 3)
    /\ pc = "done" =>
          \A i \in 1..Len(children) :
              IF style \in {FILLED_MOUNTAIN, LINES_ONLY}
              THEN /\ "color" \in DOMAIN children[i].attributes
                   /\ children[i].attributes.color =
                         Float32Array(Repeated(baseContourColor,
                                Len(children[i].attributes.position) \div 3))
              ELSE /\ "color" \notin DOMAIN children[i].attributes
                   /\ sharedMaterial.uniforms.baseColor = baseContourColor

\* a Lines Only result with a line object, for a base color that is not a
\* float32 color
C8_Witness ==
    /\ pc = "done"
    /\ style = LINES_ONLY
    /\ Len(children) > 0
    /\ FromInt(Fround(baseContourColor.g)) # baseContourColor.g

\* the heights for which at least one segment was produced
ProducedHeights == {k \in DOMAIN lines : Len(lines[k].points) > 0}

\* C9: the result holds exactly one line object per height for which at
\* least one segment was produced, that object holds all the segments of its
\* height, and no object has zero segments.
C9_OneObjectPerHeight ==
    pc = "done" =>
        /\ Len(children) = Cardinality(ProducedHeights)
        /\ {ObjectHeight(children[i]) : i \in 1..Len(children)} = ProducedHeights
        /\ \A i, j \in 1..Len(children) :
              i # j => ObjectHeight(children[i]) # ObjectHeight(children[j])
        /\ \A i \in 1..Len(children) :
              /\ Len(children[i].attributes.position) > 0
              /\ children[i].attributes.position =
                    Float32Array(lines[ObjectHeight(children[i])].points)

\* a result of two line objects, one of them with the segments of both
\* triangles
C9_Witness ==
    /\ pc = "done"
    /\ Len(children) = 2
    /\ \E i \in 1..Len(children) : Len(children[i].attributes.position) = 12

\* the triangles of the mesh, as positions of the index
Triangles == {i \in 0..(Len(index) - 3) : i % 3 = 0}
\* some triangle has a vertex below hh and a vertex at or above hh
Straddled(hh) ==
    \E i \in Triangles :
        TriMinY(vertices, index, i) < hh /\ hh <= TriMaxY(vertices, index, i)
\* the positive multiples of contourInterval below terrainMaxHeight and
\* strictly above the floor
EligibleHeights ==
    {hh \in 1..(config.terrainMaxHeight - 1) :
        /\ hh % config.contourInterval = 0
        /\ RLt(FloorHeight(config), FromInt(hh))}

\* C10: for every positive multiple h of contourInterval with
\* h < terrainMaxHeight and h strictly above the floor, if some triangle has
\* a vertex with y < h and a vertex with y >= h, the result has a level at h
\* with at least one segment; a mesh that spans 0..terrainMaxHeight with no
\* floor yields exactly the multiples strictly between 0 and terrainMaxHeight.
C10_Completeness ==
    pc = "done" =>
        /\ \A hh \in EligibleHeights :
              Straddled(hh) =>
                  \E i \in 1..Len(children) :
                      /\ ObjectHeight(children[i]) = hh
                      /\ Len(children[i].attributes.position) >= 6
        /\ ( /\ config.minTerrainHeightFactor = FromInt(0)
             /\ \E k \in DOMAIN vertices : vertices[k] = 0
             /\ \E k \in DOMAIN vertices : vertices[k] = config.terrainMaxHeight
             /\ \A k \in DOMAIN vertices : vertices[k] >= 0 )
          => {ObjectHeight(children[i]) : i \in 1..Len(children)} = EligibleHeights

\* the result for a mesh that spans 0..terrainMaxHeight, no floor, interval
\* 1: the levels 1 and 2 of terrainMaxHeight 3, one of them reached by a
\* vertex exactly at its height
C10_Witness ==
    /\ pc = "done"
    /\ config.terrainMaxHeight = 3
    /\ config.contourInterval = 1
    /\ config.minTerrainHeightFactor = FromInt(0)
    /\ \E k \in DOMAIN vertices : vertices[k] = 0
    /\ \E k \in DOMAIN vertices : vertices[k] = 3
    /\ \E i \in Triangles : TriMaxY(vertices, index, i) = 2
    /\ {ObjectHeight(children[i]) : i \in 1..Len(children)} = {1, 2}

\* C19: for contourInterval > 0 and finite vertex heights the level loop of
\* a triangle runs at most (maxY - minY) / contourInterval + 1 iterations,
\* skipped ones included, and a call that has begun returns.
C19_BoundedLevelLoop ==
    /\ [](InOrAfterLevelLoop =>
            Len(visited) * config.contourInterval <=
                TriMaxY(vertices, index, LoopTriangle)
                  - TriMinY(vertices, index, LoopTriangle) + config.contourInterval)
    /\ (pc # "idle") ~> (pc = "done")

\* a call has returned whose last level loop ran the full
\* (maxY - minY) / contourInterval + 1 iterations, more than one
C19_Witness ==
    /\ pc = "done"
    /\ Len(visited) > 1
    /\ Len(visited) * config.contourInterval =
          TriMaxY(vertices, index, ti - 3) - TriMinY(vertices, index, ti - 3)
            + config.contourInterval

(***************************************************************************)
(* Claims about generateContourLines on malformed meshes and invalid       *)
(* intervals, checked under BoundarySpec.                                  *)
(***************************************************************************)
\* the line objects of the group the call returned: the children of the
\* module's group, none for the new group of the error path
ResultLevels == IF result = "contourLinesGroup" THEN children ELSE <<>>

\* no index buffer, an empty one, or an index value past the vertex array
Malformed(idx, verts) ==
    \/ idx = NoIndex
    \/ idx = <<>>
    \/ \E k \in 1..Len(idx) : idx[k] \notin DOMAIN verts

\* C11: when the mesh is malformed (no index buffer, an empty index buffer,
\* or an index value that references an out-of-range vertex) the returned
\* result contains no contour level at all, not even those of the
\* well-formed triangles.
C11_MalformedMeshEmptyResult ==
    (pc = "done" /\ Malformed(index, vertices)) => Len(ResultLevels) = 0

\* C12: a call with contourInterval <= 0 is rejected before any
\* computation: it enters no level loop, emits no segment, and returns no
\* partial output.
C12_InvalidIntervalRejected ==
    config.contourInterval <= 0 =>
        /\ pc # "levels"
        /\ visited = <<>>
        /\ lines = <<>>
        /\ Len(ResultLevels) = 0

\* C13: a call that takes the error path (a mesh without an index buffer)
\* leaves the shared state as it was: the children of the contour group, its
\* shared material and its visibility are the same after the call as before.
C13_ErrorPathLeavesGroup ==
    [][(pc = "idle" /\ index = NoIndex) =>
          /\ children' = children
          /\ sharedMaterial' = sharedMaterial
          /\ groupVisible' = groupVisible]_vars

VertexJustStored == pc = "vertexLoop" /\ vi \in 1..NumVertices

\* C15: with the noise samples, terrainMaxHeight and minTerrainHeightFactor
\* held fixed, for plateauVolume values p1 <= p2 the elevation synthesized
\* with p2 is not greater than the one synthesized with p1, at every vertex
\* and so for the maximum of the grid.
C15_PlateauMonotone ==
    VertexJustStored =>
        \A p1 \in PlateauValues :
            RLe(p1, config.plateauVolume) =>
                vertices[vi] <= VertexHeight([config EXCEPT !.plateauVolume = p1],
                                             noise.noise1, noise.noise2)

\* a vertex stored strictly lower than it would be with no plateau, and not
\* at the floor
C15_Witness ==
    /\ VertexJustStored
    /\ config.plateauVolume.n > 0
    /\ vertices[vi] < VertexHeight([config EXCEPT !.plateauVolume = FromInt(0)],
                                   noise.noise1, noise.noise2)
    /\ RLt(FloorHeight(config), FromInt(vertices[vi]))

\* terrainMaxHeight * 0.5
HalfMaxHeight == RMul(FromInt(config.terrainMaxHeight), Rat(1, 2))
\* the maximum elevation of the grid
RECURSIVE MaxElevation(_, _)
MaxElevation(verts, n) ==
    IF n = 1 THEN verts[1] ELSE Max2(verts[n], MaxElevation(verts, n - 1))

\* C16 as stated: with plateauVolume = 1 the maximum synthesized elevation
\* equals terrainMaxHeight * 0.5 (as float32, the precision of the vertex
\* array).
C16_MaxEqualsHalf ==
    (pc = "terrainDone" /\ config.plateauVolume = FromInt(1)) =>
        MaxElevation(vertices, NumVertices) = Fround(HalfMaxHeight)

\* C16 as amended: with plateauVolume = 1 no synthesized elevation exceeds
\* terrainMaxHeight * 0.5 (as float32), and a vertex is stored at exactly
\* that value whenever its uncompressed height is at least the cutoff; a
\* vertex below the cutoff keeps its height or the floor.
C16_MaxAtMostHalf ==
    /\ (pc = "terrainDone" /\ config.plateauVolume = FromInt(1)) =>
          MaxElevation(vertices, NumVertices) <= Fround(HalfMaxHeight)
    /\ (VertexJustStored /\ config.plateauVolume = FromInt(1)) =>
          LET raw == RawHeight(config, noise.noise1, noise.noise2)
          IN  IF RLe(HalfMaxHeight, raw)
              THEN vertices[vi] = Fround(HalfMaxHeight)
              ELSE vertices[vi] = Fround(RMax(FloorHeight(config), raw))

\* a grid synthesized with plateauVolume = 1 whose first vertex is at the
\* cutoff and whose last vertex, of noise below the cutoff, is lower
C16_Witness ==
    /\ pc = "terrainDone"
    /\ config.plateauVolume = FromInt(1)
    /\ vertices[1] = Fround(HalfMaxHeight)
    /\ vertices[NumVertices] < Fround(HalfMaxHeight)

(***************************************************************************)
(* main.ts, gui.ts and scene.ts: init, updateVisualization, the callbacks  *)
(* of the GUI, the animation frame and the export.                         *)
(***************************************************************************)
\* Math.random() * 100 is one of the seeds 0..MaxSeed
MaxSeed == 1
\* the user operates the GUI MaxCallbacks times
MaxCallbacks == 2
\* config.minFadeDistance, config.maxFadeDistance
minFadeDistance == 500
maxFadeDistance == 640
\* config.terrainSize
terrainSize == 1500

Seeds == {FromInt(k) : k \in 0..MaxSeed}
\* the values the sliders and the randomization give the terrain settings
ProgramHeights == {MaxY - 1, MaxY}
NoiseScales == {1, 2}
OpacityValues == {Rat(1, 2), FromInt(1)}
FogValues == {FromInt(0), Rat(1, 2)}
BackgroundColors == {BackgroundColor, White}

\* the draws of randomizeTerrainSettings: Math.random() is below 1, the
\* interval is Math.floor(Math.random() * 7) + 2
RandomDraws ==
    [terrainMaxHeight : ProgramHeights,
     noiseScale : NoiseScales,
     minTerrainHeightFactor : FactorValues,
     plateauVolume : PlateauValues \ {FromInt(1)},
     contourInterval : 2..Max2(2, MaxInterval)]

\* noise.noise(x, y, z) of the external ImprovedNoise: a fixed function of
\* its three arguments with values in [-1, 1] (a stand-in for the gradient
\* noise, which like it depends on nothing else)
ImprovedNoise(x, y, z) ==
    Rat(((x.n + 2 * x.d + 3 * y.n + 5 * y.d + 7 * z.n + z.d) % (2 * NoiseDen + 1))
            - NoiseDen, NoiseDen)

\* the vertices the mesh index refers to
MeshGrid == {MeshIndex[i] : i \in DOMAIN MeshIndex}

\* generateTerrain: the elevations of the grid for a configuration and a seed
TerrainElevations(cfg, noiseScale, seed) ==
    [k \in MeshGrid |->
        LET x == FromInt(VertexX(k))
            z == FromInt(VertexZ(k))
            scale2 == RMul(FromInt(noiseScale), Rat(6, 5))
            noise1 == ImprovedNoise(RDiv(x, FromInt(noiseScale)),
                                    RDiv(z, FromInt(noiseScale)), seed)
            noise2 == ImprovedNoise(RDiv(x, scale2), RDiv(z, scale2),
                                    RAdd(seed, FromInt(100)))
        IN  VertexHeight(cfg, noise1, noise2)]

\* the level loop of one triangle, from h = hh on
RECURSIVE LevelLoop(_, _, _, _, _, _)
LevelLoop(ls, tri, hh, maxY, cfg, color) ==
    IF ~LevelCondition(hh, maxY, cfg)
    THEN ls
    ELSE LevelLoop(IF SkipLevel(hh, cfg)
                   THEN ls
                   ELSE PushSegments(ls, hh, Intersections(EdgeTests(tri, hh)), color),
                   tri, hh + cfg.contourInterval, maxY, cfg, color)

\* the triangle loop, from i on: `lines` when it ends
RECURSIVE TriangleLoop(_, _, _, _, _, _)
TriangleLoop(ls, verts, idx, i, cfg, color) ==
    IF i >= Len(idx)
    THEN ls
    ELSE TriangleLoop(IF FirstLevelIsNaN(verts, idx, i, cfg.contourInterval)
                      THEN ls
                      ELSE LevelLoop(ls, TriangleAt(verts, idx, i),
                                     FirstLevel(TriMinY(verts, idx, i), cfg.contourInterval),
                                     TriMaxY(verts, idx, i), cfg, color),
                      verts, idx, i + 3, cfg, color)

(***************************************************************************)
(* BufferGeometry objects by identity: geometries[id] tells the kind of    *)
(* geometry id, whether dispose() was called on it, and whether it is of   *)
(* the latest generation of its kind.                                      *)
(***************************************************************************)
NewGeometry(kind) == [kind |-> kind, disposed |-> FALSE, current |-> TRUE]

\* geometry.dispose() on every geometry of ids
Disposed(geoms, ids) ==
    [i \in DOMAIN geoms |->
        IF i \in ids THEN [geoms[i] EXCEPT !.disposed = TRUE] ELSE geoms[i]]

\* the geometries of a kind, once new ones of that kind are made
Superseded(geoms, kind) ==
    [i \in DOMAIN geoms |->
        IF geoms[i].kind = kind THEN [geoms[i] EXCEPT !.current = FALSE] ELSE geoms[i]]

\* n new geometries of a kind
RECURSIVE Allocated(_, _, _)
Allocated(geoms, kind, n) ==
    IF n = 0 THEN geoms ELSE Append(Allocated(geoms, kind, n - 1), NewGeometry(kind))

\* the identities of a sequence of geometries
Range(ids) == {ids[i] : i \in DOMAIN ids}

\* generateTerrain: new PlaneGeometry; if (!terrainMesh) new Mesh, else the
\* old geometry is disposed and the new one assigned
TerrainReplaced(geoms, old) ==
    Append(Superseded(Disposed(geoms, {old}), "terrain"), NewGeometry("terrain"))

\* createTerrainBorder: the old border's geometry is disposed, a new
\* BufferGeometry made
BorderReplaced(geoms, border) ==
    Append(Superseded(IF border # Null THEN Disposed(geoms, {border.geometry}) ELSE geoms,
                      "border"),
           NewGeometry("border"))

\* SceneWithoutBorder with the old border left in the scene
SceneWithoutBorderKept(borders, border) == borders

\* createTerrainBorder: scene.remove(terrainBorder)
SceneWithoutBorder(borders, border) ==
    IF border # Null THEN borders \ {border.geometry} ELSE borders

\* generateContourLines: the geometry of every child is disposed in the
\* loop that empties the group; one BufferGeometry per LineSegments made
ContoursReplaced(geoms, old, n) ==
    Allocated(Superseded(Disposed(geoms, Range(old)), "contour"), "contour", n)

(***************************************************************************)
(* scene.ts                                                                *)
(***************************************************************************)
\* updateFog: scene.fog after the call
Fog(cfg, sets) ==
    LET intensity == sets.fogIntensity
        range == FromInt(maxFadeDistance - minFadeDistance)
    IN  IF RLe(intensity, FromInt(0))
        THEN [color |-> cfg.backgroundColor,
              near |-> FromInt(maxFadeDistance * 100),
              far |-> FromInt(maxFadeDistance * 101)]
        ELSE [color |-> cfg.backgroundColor,
              near |-> RSub(FromInt(maxFadeDistance), RMul(range, intensity)),
              far |-> RAdd(FromInt(maxFadeDistance),
                           RMul(RMul(range, RSub(FromInt(1), intensity)), Rat(3, 2)))]

\* updateControls: enableVerticalRotate is false throughout
Controls(sets) == [enableRotate |-> sets.enableRotate, enableZoom |-> sets.enableZoom]

(***************************************************************************)
(* main.ts                                                                 *)
(***************************************************************************)
\* WithBaseColor that also rewrites the colors of the emitted geometries
WithBaseColorRepainted(group, color) ==
    [children |->
        [i \in DOMAIN group.children |->
            IF "color" \in DOMAIN group.children[i].attributes
            THEN [group.children[i] EXCEPT !.attributes.color =
                    Float32Array(Repeated(color, Len(@) \div 3))]
            ELSE group.children[i]],
     sharedMaterial |-> group.sharedMaterial]

\* handleContourColorChange: baseContourColor.set(value).  The baseColor
\* uniform of the shader material holds that same Color object, so it shows
\* the new value; the geometries hold copies of the numbers
WithBaseColor(group, color) ==
    [children |-> group.children,
     sharedMaterial |->
        IF group.sharedMaterial # Null /\ group.sharedMaterial.type = "ShaderMaterial"
        THEN [group.sharedMaterial EXCEPT !.uniforms.baseColor = color]
        ELSE group.sharedMaterial]

\* updateFadingLinesFogUniforms: each uniform is written if the material has it
FogUniforms(shared, cfg, sets) ==
    IF cfg.style = FADING_LINES /\ shared # Null /\ shared.type = "ShaderMaterial"
    THEN LET u0 == shared.uniforms
             u1 == IF "u_fogColor" \in DOMAIN u0
                   THEN [u0 EXCEPT !.u_fogColor = cfg.backgroundColor] ELSE u0
             u2 == IF "u_edgeFadeIntensity" \in DOMAIN u1
                   THEN [u1 EXCEPT !.u_edgeFadeIntensity = sets.fogIntensity] ELSE u1
             u3 == IF "u_terrainHalfSize" \in DOMAIN u2
                   THEN [u2 EXCEPT !.u_terrainHalfSize = Rat(terrainSize, 2)] ELSE u2
         IN  [shared EXCEPT !.uniforms = u3]
    ELSE shared

\* CallingOps without the sliders: no onFinishChange for them
CallingOpsWithoutSliders ==
    {"init", "style", "contourColor", "lineOpacity", "fillOpacity", "generate"}

\* the callbacks of gui.ts that call updateVisualization, and init
CallingOps ==
    {"init", "style", "terrainMaxHeight", "noiseScale", "plateauVolume",
     "contourInterval", "contourColor", "lineOpacity", "fillOpacity", "generate"}

\* UpdateArgs with every call a full regeneration
UpdateArgsRegenerate(o) ==
    [shouldRandomize |-> (o = "generate"), updateStyleOnly |-> FALSE]

\* the arguments each of them passes: (shouldRandomize, updateStyleOnly)
UpdateArgs(o) ==
    [shouldRandomize |-> (o = "generate"),
     updateStyleOnly |-> (o \in {"style", "contourInterval", "contourColor",
                                 "lineOpacity", "fillOpacity"})]

\* SyncedConfig without the copy of baseConfig into config
SyncedConfigNoCopy(cfg, base, rnd, shouldRandomize) ==
    IF shouldRandomize
    THEN [cfg EXCEPT !.terrainMaxHeight = rnd.terrainMaxHeight,
                     !.minTerrainHeightFactor = rnd.minTerrainHeightFactor,
                     !.plateauVolume = rnd.plateauVolume,
                     !.contourInterval = rnd.contourInterval]
    ELSE cfg

\* randomizeTerrainSettings, or the copy of baseConfig into config
SyncedConfig(cfg, base, rnd, shouldRandomize) ==
    IF shouldRandomize
    THEN [cfg EXCEPT !.terrainMaxHeight = rnd.terrainMaxHeight,
                     !.minTerrainHeightFactor = rnd.minTerrainHeightFactor,
                     !.plateauVolume = rnd.plateauVolume,
                     !.contourInterval = rnd.contourInterval]
    ELSE [cfg EXCEPT !.terrainMaxHeight = base.terrainMaxHeight,
                     !.minTerrainHeightFactor = base.minTerrainHeightFactor]

SyncedSettings(sets, base, rnd, shouldRandomize) ==
    [sets EXCEPT !.noiseScale = IF shouldRandomize THEN rnd.noiseScale
                                ELSE base.noiseScale]

\* baseConfig.x = config.x for the four fields, after a randomization
SyncedBase(base, cfg, sets, shouldRandomize) ==
    IF shouldRandomize
    THEN [terrainMaxHeight |-> cfg.terrainMaxHeight,
          noiseScale |-> sets.noiseScale,
          minTerrainHeightFactor |-> cfg.minTerrainHeightFactor,
          contourInterval |-> cfg.contourInterval]
    ELSE base

\* StyledMesh without the hiding of the mesh in the line styles
StyledMeshNeverHidden(mesh, verts, cfg, sets, made) ==
    LET filled == cfg.style = FILLED_MOUNTAIN
        m == IF made
             THEN [geometry |-> verts,
                   transparent |-> filled,
                   opacity |-> IF filled THEN Rat(6, 10) ELSE FromInt(1),
                   visible |-> filled]
             ELSE mesh
    IN  IF filled
        THEN [m EXCEPT !.transparent = TRUE, !.opacity = sets.fillOpacity,
                       !.visible = TRUE]
        ELSE m

\* terrainMesh after generateTerrain and the style branch of
\* updateVisualization; `mesh` is the mesh before, `made` tells whether
\* generateTerrain ran
StyledMesh(mesh, verts, cfg, sets, made) ==
    LET filled == cfg.style = FILLED_MOUNTAIN
        m == IF made
             THEN [geometry |-> verts,
                   transparent |-> filled,
                   opacity |-> IF filled THEN Rat(6, 10) ELSE FromInt(1),
                   visible |-> filled]
             ELSE mesh
    IN  IF filled
        THEN [m EXCEPT !.transparent = TRUE, !.opacity = sets.fillOpacity,
                       !.visible = TRUE]
        ELSE [m EXCEPT !.visible = FALSE]

\* ConfigAtGenerateTerrain with generateTerrain called before config is
\* synced
ConfigAtGenerateTerrainStale(before, synced) == before

\* the config generateTerrain reads: updateVisualization calls it after the
\* block that randomizes config or copies baseConfig into it
ConfigAtGenerateTerrain(before, synced) == synced

\* the fields of config that bound the elevations generateTerrain makes
TerrainParameters(cfg) ==
    [terrainMaxHeight |-> cfg.terrainMaxHeight,
     minTerrainHeightFactor |-> cfg.minTerrainHeightFactor]

\* init(): initScene, then the first updateVisualization()
InitApp ==
    /\ op = "load"
    /\ scene' = [scene EXCEPT !.background = config.backgroundColor,
                              !.fog = Fog(config, settings)]
    /\ controls' = Controls(settings)
    /\ op' = "init"
    /\ UNCHANGED <<config, vertices, index, pc, vi, noise, terrainMesh>>
    /\ UNCHANGED contourVars
    /\ UNCHANGED <<baseConfig, settings, terrainBorder, geometries, meshGeometry,
                   lineGeometries, noiseSeed, callbacks, randomRanges,
                   generatedWith>>

\* updateVisualization(shouldRandomize, updateStyleOnly), called by init or
\* by the callback `op`, with what the callback does after the call
UpdateVisualization ==
    /\ op \in CallingOps
    /\ \E rnd \in (IF UpdateArgs(op).shouldRandomize THEN RandomDraws
                   ELSE {CHOOSE r \in RandomDraws : TRUE}),
          seed \in (IF UpdateArgs(op).updateStyleOnly THEN {noiseSeed} ELSE Seeds) :
        LET args == UpdateArgs(op)
            made == ~args.updateStyleOnly
            cfg == IF made THEN SyncedConfig(config, baseConfig, rnd, args.shouldRandomize)
                   ELSE config
            sets == IF made
                    THEN SyncedSettings(settings, baseConfig, rnd, args.shouldRandomize)
                    ELSE settings
            \* generateTerrain
            read == ConfigAtGenerateTerrain(config, cfg)
            verts == IF made THEN TerrainElevations(read, sets.noiseScale, seed)
                     ELSE vertices
            g1 == IF made THEN TerrainReplaced(geometries, meshGeometry) ELSE geometries
            meshId == IF made THEN Len(g1) ELSE meshGeometry
            \* if (terrainMesh && terrainMesh.parent): main's terrainMesh is the
            \* mesh generateTerrain returned, so it is the new geometry that
            \* is disposed
            g2 == IF made /\ terrainMesh # Null /\ scene.mesh
                  THEN Disposed(g1, {meshId}) ELSE g1
            \* createTerrainBorder
            g3 == IF made THEN BorderReplaced(g2, terrainBorder) ELSE g2
            border == IF made
                      THEN [geometry |-> Len(g3), visible |-> sets.showTerrainBorder]
                      ELSE terrainBorder
            borders == IF made
                       THEN SceneWithoutBorder(scene.borders, terrainBorder) \cup {Len(g3)}
                       ELSE scene.borders
            \* handleContourColorChange(config.contourColor)
            group0 == WithBaseColor([children |-> children,
                                     sharedMaterial |-> sharedMaterial],
                                    sets.contourColor)
            \* generateContourLines
            material == ContourMaterial(group0.sharedMaterial, cfg.style,
                                        sets.contourColor, sets.lineOpacity, cfg)
            ls == TriangleLoop(<<>>, verts, index, 0, cfg, sets.contourColor)
            objects == ClearedChildren(group0.children)
                          \o LineObjects(ls, DOMAIN ls, material, cfg.style)
            g4 == ContoursReplaced(g3, lineGeometries, Len(objects))
            ids == [k \in 1..Len(objects) |-> Len(g3) + k]
            \* if (contourLinesGroup && contourLinesGroup.parent): the group is
            \* the one generateContourLines returned, so the new geometries
            \* are disposed
            g5 == IF scene.group THEN Disposed(g4, Range(ids)) ELSE g4
        IN  /\ config' = cfg
            /\ settings' = sets
            /\ baseConfig' = IF made
                             THEN SyncedBase(baseConfig, cfg, sets, args.shouldRandomize)
                             ELSE baseConfig
            /\ vertices' = verts
            /\ noiseSeed' = IF made THEN seed ELSE noiseSeed
            /\ generatedWith' = IF made THEN TerrainParameters(read) ELSE generatedWith
            /\ terrainMesh' = StyledMesh(terrainMesh, verts, cfg, sets, made)
            /\ meshGeometry' = meshId
            /\ terrainBorder' = border
            /\ baseContourColor' = sets.contourColor
            /\ style' = cfg.style
            /\ lineOpacity' = sets.lineOpacity
            /\ sharedMaterial' = FogUniforms(material, cfg, sets)
            /\ children' = objects
            /\ lineGeometries' = ids
            /\ geometries' = g5
            /\ scene' = [mesh |-> TRUE, group |-> TRUE, borders |-> borders,
                         background |-> cfg.backgroundColor, fog |-> Fog(cfg, sets)]
            /\ controls' = Controls(sets)
    /\ groupVisible' = TRUE
    /\ op' = "ready"
    /\ UNCHANGED <<index, pc, vi, noise, lines, ti, h, edges, intersections, branch,
                   visited, result, callbacks, randomRanges>>

\* no callback is in progress: the GUI takes the next one
Callback ==
    /\ op = "ready"
    /\ callbacks < MaxCallbacks
    /\ callbacks' = callbacks + 1

\* what a callback leaves alone besides the fields it is about
GuiFrame ==
    UNCHANGED <<vertices, index, pc, vi, noise, terrainMesh, style, lineOpacity,
                children, lines, ti, h, edges, intersections, branch, visited, result,
                geometries, meshGeometry, lineGeometries, noiseSeed,
                randomRanges, generatedWith>>

\* the Render Style control: dat.GUI stores the value, onFinishChange calls
\* updateVisualization(false, true)
GuiStyle ==
    /\ Callback
    /\ \E st \in Styles : config' = [config EXCEPT !.style = st]
    /\ op' = "style"
    /\ GuiFrame
    /\ UNCHANGED <<baseConfig, settings, scene, controls, terrainBorder,
                   baseContourColor, sharedMaterial, groupVisible>>

\* the Height and Feature Size sliders: onChange hides the group,
\* onFinishChange calls updateVisualization(false) and shows it
GuiTerrainShape ==
    /\ Callback
    /\ \/ /\ \E v \in ProgramHeights :
               baseConfig' = [baseConfig EXCEPT !.terrainMaxHeight = v]
          /\ op' = "terrainMaxHeight"
       \/ /\ \E v \in NoiseScales :
               baseConfig' = [baseConfig EXCEPT !.noiseScale = v]
          /\ op' = "noiseScale"
    /\ groupVisible' = FALSE
    /\ GuiFrame
    /\ UNCHANGED <<config, settings, scene, controls, terrainBorder,
                   baseContourColor, sharedMaterial>>

\* the Plateau Volume and Interval sliders, which write config itself
GuiConfigSlider ==
    /\ Callback
    /\ \/ /\ \E v \in PlateauValues : config' = [config EXCEPT !.plateauVolume = v]
          /\ op' = "plateauVolume"
       \/ /\ \E v \in IntervalValues : config' = [config EXCEPT !.contourInterval = v]
          /\ op' = "contourInterval"
    /\ groupVisible' = FALSE
    /\ GuiFrame
    /\ UNCHANGED <<baseConfig, settings, scene, controls, terrainBorder,
                   baseContourColor, sharedMaterial>>

\* the Line Color control: handleContourColorChange(value), then
\* updateVisualization(false, true)
GuiContourColor ==
    /\ Callback
    /\ \E v \in ContourColors :
          LET group == WithBaseColor([children |-> children,
                                      sharedMaterial |-> sharedMaterial], v)
          IN  /\ settings' = [settings EXCEPT !.contourColor = v]
              /\ baseContourColor' = v
              /\ children' = group.children
              /\ sharedMaterial' = group.sharedMaterial
    /\ op' = "contourColor"
    /\ UNCHANGED <<vertices, index, pc, vi, noise, terrainMesh, style, lineOpacity,
                   lines, ti, h, edges, intersections, branch, visited, result,
                   geometries, meshGeometry, lineGeometries, noiseSeed,
                randomRanges, generatedWith>>
    /\ UNCHANGED <<config, baseConfig, scene, controls, terrainBorder, groupVisible>>

\* the Line Opacity and Fill Opacity sliders
GuiOpacity ==
    /\ Callback
    /\ \E v \in OpacityValues :
          \/ /\ settings' = [settings EXCEPT !.lineOpacity = v]
             /\ op' = "lineOpacity"
          \/ /\ settings' = [settings EXCEPT !.fillOpacity = v]
             /\ op' = "fillOpacity"
    /\ GuiFrame
    /\ UNCHANGED <<config, baseConfig, scene, controls, terrainBorder,
                   baseContourColor, sharedMaterial, groupVisible>>

\* "Generate New Terrain": updateVisualization(true)
GuiGenerate ==
    /\ Callback
    /\ op' = "generate"
    /\ GuiFrame
    /\ UNCHANGED <<config, baseConfig, settings, scene, controls, terrainBorder,
                   baseContourColor, sharedMaterial, groupVisible>>

\* the Background control: handleBackgroundColorChange(value)
GuiBackground ==
    /\ Callback
    /\ \E v \in BackgroundColors :
          LET cfg == [config EXCEPT !.backgroundColor = v]
          IN  /\ config' = cfg
              /\ scene' = [scene EXCEPT !.background = v, !.fog = Fog(cfg, settings)]
              /\ sharedMaterial' = FogUniforms(sharedMaterial, cfg, settings)
    /\ GuiFrame
    /\ UNCHANGED <<baseConfig, settings, controls, terrainBorder, baseContourColor,
                   groupVisible, op>>

\* the fog Intensity slider: updateFog, updateFadingLinesFogUniforms
GuiFogIntensity ==
    /\ Callback
    /\ \E v \in FogValues :
          LET sets == [settings EXCEPT !.fogIntensity = v]
          IN  /\ settings' = sets
              /\ scene' = [scene EXCEPT !.fog = Fog(config, sets)]
              /\ sharedMaterial' = FogUniforms(sharedMaterial, config, sets)
    /\ GuiFrame
    /\ UNCHANGED <<config, baseConfig, controls, terrainBorder, baseContourColor,
                   groupVisible, op>>

\* the Enable Zoom and Enable Rotation checkboxes: updateControls
GuiCamera ==
    /\ Callback
    /\ \E v \in BOOLEAN :
          \E sets \in {[settings EXCEPT !.enableZoom = v],
                       [settings EXCEPT !.enableRotate = v]} :
              /\ settings' = sets
              /\ controls' = Controls(sets)
    /\ GuiFrame
    /\ UNCHANGED <<config, baseConfig, scene, terrainBorder, baseContourColor,
                   sharedMaterial, groupVisible, op>>

\* the Show Border checkbox: border.visible = value
GuiShowBorder ==
    /\ Callback
    /\ \E v \in BOOLEAN :
          /\ settings' = [settings EXCEPT !.showTerrainBorder = v]
          /\ terrainBorder' = IF terrainBorder # Null
                              THEN [terrainBorder EXCEPT !.visible = v]
                              ELSE terrainBorder
    /\ GuiFrame
    /\ UNCHANGED <<config, baseConfig, scene, controls, baseContourColor,
                   sharedMaterial, groupVisible, op>>

\* exportToPNG: the background is taken off for one render and put back
ExportToPNG ==
    /\ Callback
    /\ LET originalBackground == scene.background
           hidden == [scene EXCEPT !.background = Null]
       IN  scene' = [hidden EXCEPT !.background = originalBackground]
    /\ GuiFrame
    /\ UNCHANGED <<config, baseConfig, settings, controls, terrainBorder,
                   baseContourColor, sharedMaterial, groupVisible, op>>

\* one frame of animate(): the group is shown again in the Lines Only style;
\* frames also run while a slider is dragged
Animate ==
    /\ op \notin {"load", "init"}
    /\ groupVisible' =
          IF /\ config.style = LINES_ONLY
             /\ sharedMaterial # Null
             /\ sharedMaterial.type = "LineBasicMaterial"
             /\ sharedMaterial.vertexColors
          THEN TRUE
          ELSE groupVisible
    /\ GuiFrame
    /\ UNCHANGED <<config, baseConfig, settings, scene, controls, terrainBorder,
                   baseContourColor, sharedMaterial, callbacks, op>>

Init ==
    /\ config = [terrainMaxHeight |-> InitialBaseConfig.terrainMaxHeight,
                 minTerrainHeightFactor |-> InitialBaseConfig.minTerrainHeightFactor,
                 plateauVolume |-> FromInt(0),
                 contourInterval |-> InitialBaseConfig.contourInterval,
                 backgroundColor |-> BackgroundColor,
                 style |-> FADING_LINES]
    /\ vertices = <<>>
    /\ index = MeshIndex
    /\ pc = "idle"
    /\ vi = 0
    /\ noise = NaN
    /\ terrainMesh = Null
    /\ style = FADING_LINES
    /\ baseContourColor = InitialContourColor
    /\ lineOpacity = InitialSettings.lineOpacity
    /\ children = <<>>
    /\ sharedMaterial = Null
    /\ groupVisible = TRUE
    /\ lines = <<>>
    /\ ti = 0
    /\ h = 0
    /\ edges = <<>>
    /\ intersections = <<>>
    /\ branch = "none"
    /\ visited = <<>>
    /\ result = "none"
    /\ LoadedMain

Next ==
    \/ InitApp
    \/ UpdateVisualization
    \/ GuiStyle
    \/ GuiTerrainShape
    \/ GuiConfigSlider
    \/ GuiContourColor
    \/ GuiOpacity
    \/ GuiGenerate
    \/ GuiBackground
    \/ GuiFogIntensity
    \/ GuiCamera
    \/ GuiShowBorder
    \/ ExportToPNG
    \/ Animate

Spec == Init /\ [][Next]_vars

(***************************************************************************)
(* Properties of the program: Spec.                                        *)
(***************************************************************************)
\* updateVisualization runs in this step, called by one of the callbacks `ops`
UpdateStep(ops) == op \in ops /\ op' = "ready"

\* the elevations of the mesh are those generateTerrain made from the
\* terrain parameters config holds now
ParametersInUse ==
    /\ terrainMesh # Null
    /\ vertices = TerrainElevations(config, settings.noiseScale, noiseSeed)

Referenced ==
    (IF meshGeometry # 0 THEN {meshGeometry} ELSE {})
        \cup Range(lineGeometries)
        \cup scene.borders
        \cup (IF terrainBorder # Null THEN {terrainBorder.geometry} ELSE {})

\* the geometries of a kind that a later geometry of that kind has replaced
Earlier(kind) ==
    {id \in DOMAIN geometries :
        geometries[id].kind = kind /\ ~geometries[id].current}

\* C17: every terrain, contour-line and border geometry made by an earlier
\* regeneration has been disposed and is referenced by nothing, so the
\* geometries that are held or not disposed are those of the latest
\* regeneration: the mesh's, the border's and one per contour level.
C17_EarlierGeometriesReleased ==
    /\ \A kind \in {"terrain", "contour", "border"} :
          \A id \in Earlier(kind) :
              geometries[id].disposed /\ id \notin Referenced
    /\ \A id \in DOMAIN geometries :
          ~geometries[id].disposed => id \in Referenced
    /\ Cardinality(Referenced) <= 2 + Len(children)

\* a regeneration has replaced a geometry of each kind
C17_Witness ==
    /\ op = "ready"
    /\ \A kind \in {"terrain", "contour", "border"} : Earlier(kind) # {}
    /\ Len(children) > 0

\* the positions and colors stored in the geometries of the contour levels
ContourData(ch) == [i \in DOMAIN ch |-> ch[i].attributes]

\* the vertex elevations stored in the geometry of a mesh
MeshElevations(mesh) == IF mesh = Null THEN <<>> ELSE mesh.geometry

\* C18: a step that is not a call of updateVisualization (an animation
\* frame, a callback of the GUI up to its call of updateVisualization, the
\* export) leaves the vertex elevations of the terrain and the positions
\* and colors of the contour-level geometries as they were.
C18_DataReadOnlyBetweenUpdates ==
    [][~UpdateStep(CallingOps)
       => /\ vertices' = vertices
          /\ MeshElevations(terrainMesh') = MeshElevations(terrainMesh)
          /\ ContourData(children') = ContourData(children)]_vars

\* the Line Color callback has run handleContourColorChange and not yet
\* updateVisualization: the base color is the new one, the colors stored in
\* the first level's geometry are still the old ones
C18_Witness ==
    /\ op = "contourColor"
    /\ Len(children) > 0
    /\ "color" \in DOMAIN children[1].attributes
    /\ children[1].attributes.color #
          Float32Array(Repeated(baseContourColor,
                                Len(children[1].attributes.color) \div 3))
    /\ MeshElevations(terrainMesh) = vertices

\* the callbacks of gui.ts that call updateVisualization(false, true): the
\* Render Style, Interval, Line Color, Line Opacity and Fill Opacity controls
StyleOnlyOps == {"style", "contourInterval", "contourColor", "lineOpacity", "fillOpacity"}

\* the geometries of the kinds a style-only update does not make
TerrainAndBorderGeometries(geoms) ==
    {<<id, geoms[id]>> : id \in {i \in DOMAIN geoms : geoms[i].kind # "contour"}}

\* C20: updateVisualization(false, true) leaves the vertex elevations of the
\* terrain geometry, config.terrainMaxHeight, config.noiseScale,
\* config.minTerrainHeightFactor and the terrain border as they were; what
\* it changes are the contours, extracted again from the current geometry,
\* the materials and the visibility: the rest of config and baseConfig, the
\* scene's background, fog and borders, the controls and the terrain and
\* border geometries are as before.
C20_StyleOnlyKeepsTerrain ==
    [][UpdateStep(StyleOnlyOps)
       => /\ vertices' = vertices
          /\ MeshElevations(terrainMesh') = MeshElevations(terrainMesh)
          /\ meshGeometry' = meshGeometry
          /\ config'.terrainMaxHeight = config.terrainMaxHeight
          /\ settings'.noiseScale = settings.noiseScale
          /\ config'.minTerrainHeightFactor = config.minTerrainHeightFactor
          /\ terrainBorder' = terrainBorder
          /\ scene'.borders = scene.borders
          /\ TerrainAndBorderGeometries(geometries') =
                TerrainAndBorderGeometries(geometries)
          /\ UNCHANGED <<config, settings, baseConfig, scene, controls, noiseSeed>>
          /\ ContourData(children') =
                ContourData(LineObjects(
                    TriangleLoop(<<>>, vertices, index, 0, config, baseContourColor),
                    DOMAIN TriangleLoop(<<>>, vertices, index, 0, config, baseContourColor),
                    sharedMaterial', config.style))]_vars

\* the first callback was the Render Style control: the style-only update
\* has run on a terrain with a border and drawn contours in the new style
C20_Witness ==
    /\ op = "ready"
    /\ callbacks = 1
    /\ style # FADING_LINES
    /\ terrainBorder # Null
    /\ Len(children) > 0
    /\ terrainMesh.visible = (style = FILLED_MOUNTAIN)

\* C21: when a call of updateVisualization has completed, whatever its
\* arguments and whatever styles came before, the terrain mesh is visible
\* exactly in the Filled Mountain style, and the contour group is in the
\* scene and visible.
C21_VisibilityByStyle ==
    [][UpdateStep(CallingOps)
       => /\ terrainMesh'.visible = (config'.style = FILLED_MOUNTAIN)
          /\ scene'.mesh
          /\ scene'.group
          /\ groupVisible']_vars

\* two style changes, Filled Mountain and then Lines Only: the material of
\* the mesh is still the transparent one of the filled style, the mesh is
\* hidden and the group shown
C21_Witness ==
    /\ op = "ready"
    /\ callbacks = 2
    /\ config.style = LINES_ONLY
    /\ terrainMesh.transparent
    /\ ~terrainMesh.visible
    /\ groupVisible

(***************************************************************************)
(* The program with the drags of the sliders finished: a callback whose    *)
(* onFinishChange is due gets it, the user releasing the slider.           *)
(***************************************************************************)
\* init() runs when the page has loaded, and a call of updateVisualization
\* that is due is made.  For UpdateVisualization weak fairness is written
\* out, with its guard for ENABLED.
FinishedFairness ==
    /\ WF_vars(InitApp)
    /\ ([]<>(op \notin CallingOps) \/ []<><<UpdateVisualization>>_vars)

FinishedSpec == Init /\ [][Next]_vars /\ FinishedFairness

\* the Height, Feature Size, Plateau Volume and Interval sliders
SliderOps == {"terrainMaxHeight", "noiseScale", "plateauVolume", "contourInterval"}

\* C22: the onChange of each of the four sliders hides the contour group;
\* the onFinishChange that follows runs updateVisualization and leaves the
\* group in the scene and visible; so a drag that has hidden the group
\* leads to a state, the change finished, where the group is visible.
C22_HideThenShow ==
    /\ [][(op = "ready" /\ op' \in SliderOps) => ~groupVisible']_vars
    /\ [][UpdateStep(SliderOps) => (groupVisible' /\ scene'.group)]_vars
    /\ (op \in SliderOps) ~> (op = "ready" /\ groupVisible /\ scene.group)

\* the first callback was the Height slider, moved to another value: the
\* regeneration is done and the group visible
C22_Witness ==
    /\ op = "ready"
    /\ callbacks = 1
    /\ config.terrainMaxHeight # InitialBaseConfig.terrainMaxHeight
    /\ config.contourInterval = InitialBaseConfig.contourInterval
    /\ groupVisible
    /\ scene.group

(***************************************************************************)
(* randomizeTerrainSettings on its own, in the units of the source: the    *)
(* draws of Math.random() and the arithmetic on them.                      *)
(***************************************************************************)
\* Math.random() is k / RandomDen for k in 0..RandomDen - 1: at least 0, below 1
RandomDen == 4
RandomValues == {Rat(k, RandomDen) : k \in 0..(RandomDen - 1)}

RMin(a, b) == IF RLt(a, b) THEN a ELSE b

\* RandomizedSettings without the clamp of minTerrainHeightFactor to [0, 0.5]
RandomizedSettingsUnclamped(cfg, base, ranges, r) ==
    LET enabled == ranges.enableIntervalRandomization
        first == IF enabled THEN Floor(RMul(r[5], FromInt(7))) + 2
                 ELSE cfg.contourInterval
    IN  [terrainMaxHeight |-> RAdd(RMul(r[1], FromInt(300 - 20)), FromInt(20)),
         noiseScale |-> RAdd(RMul(r[2], FromInt(200 - 70)), FromInt(70)),
         minTerrainHeightFactor |->
            RAdd(base.minTerrainHeightFactor,
                 RMul(RMul(RSub(r[3], Rat(1, 2)), ranges.minHeightRange), FromInt(2))),
         plateauVolume |-> r[6],
         contourInterval |-> IF enabled THEN Floor(RMul(r[7], FromInt(7))) + 2
                             ELSE first]

\* randomizeTerrainSettings: the five fields of config after the call.  r
\* holds the draws of Math.random() in the order of the calls; plateauVolume
\* and contourInterval are assigned twice, the second assignment stays.
RandomizedSettings(cfg, base, ranges, r) ==
    LET enabled == ranges.enableIntervalRandomization
        first == IF enabled THEN Floor(RMul(r[5], FromInt(7))) + 2
                 ELSE cfg.contourInterval
    IN  [terrainMaxHeight |-> RAdd(RMul(r[1], FromInt(300 - 20)), FromInt(20)),
         noiseScale |-> RAdd(RMul(r[2], FromInt(200 - 70)), FromInt(70)),
         minTerrainHeightFactor |->
            RMax(FromInt(0),
                 RMin(Rat(1, 2),
                      RAdd(base.minTerrainHeightFactor,
                           RMul(RMul(RSub(r[3], Rat(1, 2)), ranges.minHeightRange),
                                FromInt(2))))),
         plateauVolume |-> r[6],
         contourInterval |-> IF enabled THEN Floor(RMul(r[7], FromInt(7))) + 2
                             ELSE first]

\* one call of randomizeTerrainSettings
RandomizeTerrainSettings ==
    /\ pc = "idle"
    /\ \E r \in [1..7 -> RandomValues] :
          LET new == RandomizedSettings(config, baseConfig, randomRanges, r)
          IN  /\ config' = [config EXCEPT
                              !.terrainMaxHeight = new.terrainMaxHeight,
                              !.minTerrainHeightFactor = new.minTerrainHeightFactor,
                              !.plateauVolume = new.plateauVolume,
                              !.contourInterval = new.contourInterval]
              /\ settings' = [settings EXCEPT !.noiseScale = new.noiseScale]
    /\ pc' = "randomized"
    /\ UNCHANGED <<vertices, index, vi, noise, terrainMesh>>
    /\ UNCHANGED contourVars
    /\ UNCHANGED <<baseConfig, scene, controls, terrainBorder, geometries,
                   meshGeometry, lineGeometries, noiseSeed, callbacks, randomRanges,
                   generatedWith, op>>

\* the state before the call: baseConfig.minTerrainHeightFactor is 0.3, or
\* after earlier randomizations anything up to the ends of [0, 0.5]; the
\* interval is any the slider or an earlier call has set
RandomizeInit ==
    /\ \E factor \in {FromInt(0), Rat(1, 50), Rat(3, 10), Rat(1, 2)},
          interval \in {1, 5, 50},
          enabled \in BOOLEAN :
          /\ baseConfig = [terrainMaxHeight |-> FromInt(200),
                           noiseScale |-> FromInt(110),
                           minTerrainHeightFactor |-> factor,
                           contourInterval |-> interval]
          /\ config = [terrainMaxHeight |-> FromInt(200),
                       minTerrainHeightFactor |-> factor,
                       plateauVolume |-> FromInt(0),
                       contourInterval |-> interval,
                       backgroundColor |-> BackgroundColor,
                       style |-> FADING_LINES]
          /\ settings = [InitialSettings EXCEPT !.noiseScale = FromInt(110)]
          /\ randomRanges = [minHeightRange |-> Rat(1, 20),
                             enableIntervalRandomization |-> enabled]
    /\ vertices = <<>>
    /\ index = <<>>
    /\ pc = "idle"
    /\ vi = 0
    /\ noise = NaN
    /\ terrainMesh = Null
    /\ ContourIdle
    /\ scene = [mesh |-> FALSE, group |-> FALSE, borders |-> {},
                background |-> Null, fog |-> Null]
    /\ controls = [enableRotate |-> TRUE, enableZoom |-> TRUE]
    /\ terrainBorder = Null
    /\ geometries = <<>>
    /\ meshGeometry = 0
    /\ lineGeometries = <<>>
    /\ noiseSeed = FromInt(0)
    /\ callbacks = 0
    /\ generatedWith = Null
    /\ op = "generate"

RandomizeNext == RandomizeTerrainSettings

RandomizeSpec == RandomizeInit /\ [][RandomizeNext]_vars

C24_DegenerateSegmentEmitted ==
    [][(pc = "levels" /\ visited' # visited /\ branch' = "body") =>
          LET tri == TriangleAt(vertices, index, ti)
          IN  \A a \in 1..3 :
                 (/\ tri[a].y = FromInt(h)
                  /\ \A b \in (1..3) \ {a} : RLt(tri[b].y, FromInt(h))) =>
                    PointsAt(lines', h) =
                       PointsAt(lines, h) \o SegmentPoints(tri[a], tri[a])]_vars

\* such an iteration has just run: the triangle touches the level from below
\* in one vertex and the level holds a segment from that vertex to itself
C24_Witness ==
    /\ pc = "levels"
    /\ branch = "body"
    /\ \E a \in 1..3 :
          LET tri == TriangleAt(vertices, index, ti)
          IN  /\ tri[a].y = FromInt(LastHeight)
              /\ \A b \in (1..3) \ {a} : RLt(tri[b].y, FromInt(LastHeight))
              /\ intersections = <<tri[a], tri[a]>>
              /\ LastHeight \in DOMAIN lines
              /\ Len(lines[LastHeight].points) >= 6

\* C25: in Fading Lines style, after updateFadingLinesFogUniforms has run
\* (from updateVisualization, a background-color change or a fog-intensity
\* change), the uniforms u_fogColor, u_edgeFadeIntensity and
\* u_terrainHalfSize of the shared shader material equal
\* config.backgroundColor, config.fogIntensity and config.terrainSize / 2.
C25_FogUniformsFollowConfig ==
    (/\ op = "ready"
     /\ config.style = FADING_LINES
     /\ sharedMaterial # Null
     /\ sharedMaterial.type = "ShaderMaterial")
    => /\ {"u_fogColor", "u_edgeFadeIntensity", "u_terrainHalfSize"}
             \subseteq DOMAIN sharedMaterial.uniforms
       /\ sharedMaterial.uniforms.u_fogColor = config.backgroundColor
       /\ sharedMaterial.uniforms.u_edgeFadeIntensity = settings.fogIntensity
       /\ sharedMaterial.uniforms.u_terrainHalfSize = Rat(terrainSize, 2)

\* C26: after every updateVisualization call that is not style-only,
\* config.terrainMaxHeight, config.noiseScale and
\* config.minTerrainHeightFactor equal the same-named fields of baseConfig,
\* and a non-randomizing call never changes config.contourInterval.
C26_ConfigSyncedWithBase ==
    /\ [][UpdateStep({o \in CallingOps : ~UpdateArgs(o).updateStyleOnly})
          => /\ config'.terrainMaxHeight = baseConfig'.terrainMaxHeight
             /\ settings'.noiseScale = baseConfig'.noiseScale
             /\ config'.minTerrainHeightFactor = baseConfig'.minTerrainHeightFactor]_vars
    /\ [][UpdateStep({o \in CallingOps : ~UpdateArgs(o).shouldRandomize})
          => config'.contourInterval = config.contourInterval]_vars

\* two slider changes have been copied into config: the height and the
\* feature size both differ from their initial values and agree with
\* baseConfig, the interval is the initial one
C26_Witness ==
    /\ op = "ready"
    /\ callbacks = 2
    /\ config.terrainMaxHeight = baseConfig.terrainMaxHeight
    /\ config.terrainMaxHeight # InitialBaseConfig.terrainMaxHeight
    /\ settings.noiseScale = baseConfig.noiseScale
    /\ settings.noiseScale # InitialBaseConfig.noiseScale
    /\ config.contourInterval = InitialBaseConfig.contourInterval

C28_NoUseAfterDispose ==
    op = "ready" =>
        /\ (scene.mesh /\ meshGeometry # 0) => ~geometries[meshGeometry].disposed
        /\ scene.group => \A id \in Range(lineGeometries) : ~geometries[id].disposed

\* C29: after any sequence of slider changes, style changes and Generate
\* New Terrain clicks, whenever generateContourLines runs (in every call of
\* updateVisualization), config.terrainMaxHeight and
\* config.minTerrainHeightFactor equal the values used by the generateTerrain
\* call that produced the geometry being contoured.
C29_ContouredWithGeneratingParameters ==
    [][UpdateStep(CallingOps)
       => /\ generatedWith' # Null
          /\ config'.terrainMaxHeight = generatedWith'.terrainMaxHeight
          /\ config'.minTerrainHeightFactor = generatedWith'.minTerrainHeightFactor]_vars

\* a style change has re-extracted the contours of a terrain that an
\* earlier Height change had regenerated
C29_Witness ==
    /\ op = "ready"
    /\ callbacks = 2
    /\ style # FADING_LINES
    /\ generatedWith # Null
    /\ generatedWith.terrainMaxHeight # InitialBaseConfig.terrainMaxHeight
    /\ generatedWith = TerrainParameters(config)
    /\ baseConfig.noiseScale = InitialBaseConfig.noiseScale

\* C30: the crossing test is symmetric in its endpoints:
\* getIntersection(p1, p2, h) reports a crossing exactly when
\* getIntersection(p2, p1, h) does, and in exact arithmetic both return the
\* same point (stated of every pair of vertices of the mesh the call is
\* given and every height); hence the second triangle finds on the shared
\* edge, its edge31 from index[2] to index[1], what the first triangle's
\* direction of that edge, edge23 from index[1] to index[2], gives.
C30_CrossingSymmetric ==
    /\ pc = "idle" =>
          \A a \in DOMAIN vertices : \A b \in DOMAIN vertices : \A hh \in (-MaxDescent)..(MaxY + 1) :
              GetIntersection(Vertex(vertices, a), Vertex(vertices, b), FromInt(hh))
                = GetIntersection(Vertex(vertices, b), Vertex(vertices, a), FromInt(hh))
    /\ (pc = "levels" /\ branch = "body" /\ ti = 3) =>
          edges[3] = GetIntersection(Vertex(vertices, MeshIndex[2]),
                                     Vertex(vertices, MeshIndex[3]), FromInt(LastHeight))

\* the second triangle has just found a crossing strictly inside the shared
\* edge
C30_Witness ==
    /\ pc = "levels"
    /\ branch = "body"
    /\ ti = 3
    /\ edges[3] # Null
    /\ edges[3] # Vertex(vertices, MeshIndex[2])
    /\ edges[3] # Vertex(vertices, MeshIndex[3])
    /\ LastTriangle[3] = Vertex(vertices, MeshIndex[3])
    /\ LastTriangle[1] = Vertex(vertices, MeshIndex[2])

====
